---- MODULE Spec2Model ----
(***************************************************************************)
(* A model of the datastruct derive macro (datastruct_derive): the         *)
(* resolution of `#[dstruct(..)]` / `#[dfield(..)]` attributes into a       *)
(* StructConfig and one FieldConfig per field, the ordering of the fields  *)
(* by their initialisation sequence, and the members that to_impl emits.   *)
(* The emitted members are kept as data (the token streams of the quote!   *)
(* templates, reduced to their field names and expressions) and are given  *)
(* the meaning the Rust compiler gives them by the Eval* operators.        *)
(***************************************************************************)
EXTENDS Integers, Sequences, FiniteSets, TLC

VARIABLES
    syntax,     \* the parsed RichStruct handed to RichStructContent::from_syntax
    pc,         \* "parsed" -> "content" -> "done", or "error"
    content,    \* the RichStructContent (config and sorted fields) once resolved
    output,     \* the members emitted by to_impl
    error       \* the messages of the syn::Error that was returned, if any

vars == <<syntax, pc, content, output, error>>

-----------------------------------------------------------------------------
(* Bounds of the model. *)

\* Largest number of fields of a declared structure.
MaxFields == 2

\* Field values of the instances on which emitted members are evaluated
\* range over 0..MaxVal.
MaxVal == 1

\* Largest number of options in one enumerated `#[dstruct(..)]` group.
MaxStructOpts == 2

\* The number of times one field option is repeated on a field.
MaxRepeat == 2

-----------------------------------------------------------------------------
(* syn::NestedMeta: one entry of an attribute's option list.  `shape` is   *)
(* "path" (bare flag), "bool" / "int" / "str" / "float" (name = literal),   *)
(* "list" (name(...)) or "lit" (a bare literal, NestedMeta::Lit).           *)

Meta(k, sh, bv, iv, sv, sb) ==
    [key |-> k, shape |-> sh, b |-> bv, i |-> iv, s |-> sv, sub |-> sb]

MPath(k) == Meta(k, "path", FALSE, 0, "", <<>>)

MBool(k, v) == Meta(k, "bool", v, 0, "", <<>>)

MInt(k, v) == Meta(k, "int", FALSE, v, "", <<>>)

MStr(k, v) == Meta(k, "str", FALSE, 0, v, <<>>)

MFloat(k) == Meta(k, "float", FALSE, 0, "", <<>>)

MList(k, nested) == Meta(k, "list", FALSE, 0, "", nested)

MLit(v) == Meta("", "lit", FALSE, 0, v, <<>>)

\* syn::Attribute: `#[path(nested...)]`.
Attr(p, nested) == [path |-> p, nested |-> nested]

\* Option<T> of the configuration records.
None == "None"

Range(f) == {f[x] : x \in DOMAIN f}

RECURSIVE Concat(_)
\* The entries of every attribute, in declaration order.
Concat(seqs) ==
    IF seqs = <<>> THEN <<>> ELSE Head(seqs) \o Concat(Tail(seqs))

-----------------------------------------------------------------------------
(* utils/synerr.rs: the error accumulator.  A syn::Error is the sequence   *)
(* of its messages; combine appends the messages of the other error.       *)

NoErr == <<>>

update_or_combine(err, e) == err \o e

-----------------------------------------------------------------------------
(* HashMap, as utils/collect_meta.rs uses it.                              *)

\* The key/value map after map.insert(k, v).
MapInsert(map, k, v) ==
    [x \in (DOMAIN map) \cup {k} |-> IF x = k THEN v ELSE map[x]]

\* HashMap::get(k).copied().flatten() for a map of Option values.
MapGetFlatten(map, k) == IF k \in DOMAIN map THEN map[k] ELSE None

-----------------------------------------------------------------------------
(* config/field_config.rs: SetterType and GetterType.                      *)

SetterType_from_str(s) ==
    CASE s \in {"full", "all"} -> "Full"
      [] s = "set" -> "Set"
      [] s = "with" -> "With"
      [] s = "no" -> "No"
      [] OTHER -> None

GetterType_from_str(s) ==
    CASE s \in {"full", "all"} -> "Full"
      [] s = "move" -> "Move"
      [] s = "get" -> "Get"
      [] s = "no" -> "No"
      [] OTHER -> None

\* #[default] of SetterType.
SetterType_default == "Full"

\* #[default] of GetterType.
GetterType_default == "Get"

-----------------------------------------------------------------------------
(* ops.rs: the structure-level operator configuration.                     *)

OpsType_from_str(s) ==
    CASE s = "add" -> "Add"
      [] s = "sub" -> "Sub"
      [] s = "mul" -> "Mul"
      [] s = "div" -> "Div"
      [] OTHER -> None

\* from_str reading "assign" as both forms.
OpsAssignableType_from_str_assign_both(s) ==
    CASE s \in {"both", "all", "assign"} -> "Both"
      [] s \in {"plain", "default"} -> "Plain"
      [] OTHER -> None

OpsAssignableType_from_str(s) ==
    CASE s \in {"both", "all"} -> "Both"
      [] s = "assign" -> "Assign"
      [] s \in {"plain", "default"} -> "Plain"
      [] OTHER -> None

\* #[default] of OpsAssignableType.
OpsAssignableType_default == "Plain"

StructOpsConfig_default == [add |-> None, sub |-> None, mul |-> None, div |-> None]

\* The classifier closure of StructOpsConfig::from_meta.
StructOpsClassify(idx, m, env) ==
    LET ops_type == OpsType_from_str(m.key)
        fail(msg) == [ok |-> FALSE, k |-> None, v |-> None, env |-> env, err |-> <<msg>>]
        done(v) == [ok |-> TRUE, k |-> ops_type, v |-> v, env |-> env, err |-> NoErr]
    IN  IF ops_type = None THEN fail("invalid ops type")
        ELSE CASE m.shape = "path" -> done(OpsAssignableType_default)
               [] m.shape = "str" ->
                      IF OpsAssignableType_from_str(m.s) = None
                      THEN fail("invalid ops operation type")
                      ELSE done(OpsAssignableType_from_str(m.s))
               [] m.shape = "bool" ->
                      IF m.b THEN done(OpsAssignableType_default) ELSE done(None)
               [] OTHER -> fail("invalid ops operation type")

-----------------------------------------------------------------------------
(* cmp.rs: the structure-level comparison switches.                        *)

StructCmpConfig_default ==
    [partial_eq |-> FALSE, eq |-> FALSE, partial_ord |-> FALSE, ord |-> FALSE]

\* The closure that StructConfig::from_attribute hands to collect_meta_set
\* for `cmp(...)`: it sets the switch named by `item` in the captured config.
StructCmpClassify(item, cmp) ==
    LET done(c) == [ok |-> TRUE, v |-> "unit", env |-> c, err |-> NoErr]
    IN  CASE item = "eq" -> done([cmp EXCEPT !.eq = TRUE])
          [] item \in {"peq", "partial_eq"} -> done([cmp EXCEPT !.partial_eq = TRUE])
          [] item \in {"ord", "cmp"} -> done([cmp EXCEPT !.ord = TRUE])
          [] item \in {"partial_ord", "pord", "partial_cmp", "pcmp"} ->
                 done([cmp EXCEPT !.partial_ord = TRUE])
          [] OTHER -> [ok |-> FALSE, v |-> "unit", env |-> cmp,
                       err |-> <<"invalid 'cmp' value">>]

-----------------------------------------------------------------------------
(* Option<isize> and Option<Expr> values, and the literal parsers of the   *)
(* standard library and of syn, over the literals the model uses.          *)

Some(x) == [some |-> TRUE, v |-> x]

NoneInt == [some |-> FALSE, v |-> 0]

\* syn::Expr: a literal `n`, or `ref + n` where ref names a binding.
ELit(n) == [kind |-> "lit", n |-> n, ref |-> ""]

ERefPlus(r, n) == [kind |-> "ref_plus", n |-> n, ref |-> r]

NoneExpr == [some |-> FALSE, v |-> ELit(0)]

\* str::parse::<isize>()
ParseIsize(s) ==
    CASE s = "-2" -> Some(-2)
      [] s = "-1" -> Some(-1)
      [] s = "0" -> Some(0)
      [] s = "1" -> Some(1)
      [] s = "2" -> Some(2)
      [] s = "3" -> Some(3)
      [] OTHER -> NoneInt

\* str::parse::<bool>()
ParseBool(s) ==
    CASE s = "true" -> [some |-> TRUE, v |-> TRUE]
      [] s = "false" -> [some |-> TRUE, v |-> FALSE]
      [] OTHER -> [some |-> FALSE, v |-> FALSE]

\* syn::parse_str::<Expr>()
ParseExpr(s) ==
    CASE s = "1" -> Some(ELit(1))
      [] s = "2" -> Some(ELit(2))
      [] s = "a + 1" -> Some(ERefPlus("a", 1))
      [] s = "b + 1" -> Some(ERefPlus("b", 1))
      [] s = "c + 1" -> Some(ERefPlus("c", 1))
      [] s = "d + 1" -> Some(ERefPlus("d", 1))
      [] OTHER -> NoneExpr

-----------------------------------------------------------------------------
(* cmp.rs: the field-level comparison configuration.                       *)

FieldCmpConfig_default == [eq |-> TRUE, ord |-> NoneInt, partial_ord |-> NoneInt]

\* The closure of FieldCmpConfig::from_meta; `config` is the captured record.
FieldCmpClassify(idx, m, config) ==
    LET ok(c) == [ok |-> TRUE, k |-> "unit", v |-> "unit", env |-> c, err |-> NoErr]
        fail(msg) == [ok |-> FALSE, k |-> "unit", v |-> "unit", env |-> config,
                      err |-> <<msg>>]
        rank(field, name) ==
            CASE m.shape = "bool" ->
                     ok([config EXCEPT ![field] = IF m.b THEN Some(idx) ELSE NoneInt])
              [] m.shape = "str" ->
                     IF ParseIsize(m.s).some
                     THEN ok([config EXCEPT ![field] = ParseIsize(m.s)])
                     ELSE fail("cannot parse '" \o name \o "' value")
              [] m.shape = "int" -> ok([config EXCEPT ![field] = Some(m.i)])
              [] m.shape = "path" -> ok([config EXCEPT ![field] = Some(idx)])
              [] OTHER -> fail("invalid '" \o name \o "' value, see the documentation for more information")
    IN  CASE m.key \in {"eq", "peq"} ->
                 CASE m.shape = "bool" -> ok([config EXCEPT !.eq = m.b])
                   [] m.shape = "str" ->
                          IF ParseBool(m.s).some
                          THEN ok([config EXCEPT !.eq = ParseBool(m.s).v])
                          ELSE fail("cannot parse 'eq' value")
                   [] m.shape = "path" -> ok([config EXCEPT !.eq = TRUE])
                   [] OTHER -> fail("invalid 'eq' value, see the documentation for more information")
          [] m.key \in {"cmp", "ord"} -> rank("ord", "cmp")
          [] m.key \in {"partial_cmp", "pcmp", "partial_ord", "pord"} ->
                 rank("partial_ord", "partial_cmp")
          [] OTHER -> ok(config)

-----------------------------------------------------------------------------
(* utils/collect_meta.rs.  `func` names the closure that the caller hands  *)
(* over; a closure may mutate what it captures: `env` is the captured      *)
(* state, threaded through the calls.  A closure returns [ok, k, v, env,   *)
(* err].                                                                   *)

\* func(item, span) of collect_meta_set.
call_set_func(func, item, env) ==
    CASE func = "StructConfig::cmp" -> StructCmpClassify(item, env)

\* func(idx, path, meta) of collect_meta_map.
call_map_func(func, idx, m, env) ==
    CASE func = "StructOpsConfig::from_meta" -> StructOpsClassify(idx, m, env)
      [] func = "FieldCmpConfig::from_meta" -> FieldCmpClassify(idx, m, env)

collect_meta_set_next(acc, m, func) ==
    LET item(r) ==
            IF m.shape \in {"path", "lit"}
            THEN IF r.ok
                 THEN [set |-> acc.set \cup {r.v}, err |-> acc.err, env |-> r.env]
                 ELSE [set |-> acc.set, err |-> update_or_combine(acc.err, r.err),
                       env |-> r.env]
            ELSE [set |-> acc.set,
                  err |-> update_or_combine(acc.err,
                      <<"invalid meta argument, expect ident or string literal">>),
                  env |-> acc.env]
    IN  item(call_set_func(func, IF m.shape = "path" THEN m.key ELSE m.s, acc.env))

\* The `for meta in meta.nested.iter()` loop of collect_meta_set, over the
\* first n items.
RECURSIVE collect_meta_set_loop(_, _, _, _)
collect_meta_set_loop(nested, func, env0, n) ==
    IF n = 0
    THEN [set |-> {}, err |-> NoErr, env |-> env0]
    ELSE collect_meta_set_next(collect_meta_set_loop(nested, func, env0, n - 1),
                               nested[n], func)

collect_meta_set(nested, func, env0) ==
    LET result(res) ==
            [ok |-> res.err = NoErr, set |-> res.set, env |-> res.env, err |-> res.err]
    IN  result(collect_meta_set_loop(nested, func, env0, Len(nested)))

\* The loop body that keeps the first failure only and the first value
\* of a key only.
collect_meta_map_next_first_only(acc, idx, m, func) ==
    LET item(r) ==
            IF m.shape \in {"path", "bool", "int", "str", "float"}
            THEN IF r.ok
                 THEN [map |-> IF r.k \in DOMAIN acc.map THEN acc.map
                               ELSE MapInsert(acc.map, r.k, r.v),
                       err |-> acc.err, env |-> r.env]
                 ELSE [map |-> acc.map,
                       err |-> IF acc.err = NoErr THEN r.err ELSE acc.err,
                       env |-> r.env]
            ELSE acc
    IN  item(call_map_func(func, idx, m, acc.env))

collect_meta_map_next(acc, idx, m, func) ==
    LET item(r) ==
            IF m.shape \in {"path", "bool", "int", "str", "float"}
            THEN IF r.ok
                 THEN [map |-> MapInsert(acc.map, r.k, r.v), err |-> acc.err,
                       env |-> r.env]
                 ELSE [map |-> acc.map, err |-> update_or_combine(acc.err, r.err),
                       env |-> r.env]
            ELSE acc
    IN  item(call_map_func(func, idx, m, acc.env))

\* The `for (idx, meta) in meta.nested.iter().enumerate()` loop of
\* collect_meta_map, over the first n items.
RECURSIVE collect_meta_map_loop(_, _, _, _)
collect_meta_map_loop(nested, func, env0, n) ==
    IF n = 0
    THEN [map |-> <<>>, err |-> NoErr, env |-> env0]
    ELSE collect_meta_map_next(collect_meta_map_loop(nested, func, env0, n - 1),
                               n - 1, nested[n], func)

collect_meta_map(nested, func, env0) ==
    LET result(res) ==
            [ok |-> res.err = NoErr, map |-> res.map, env |-> res.env, err |-> res.err]
    IN  result(collect_meta_map_loop(nested, func, env0, Len(nested)))

-----------------------------------------------------------------------------
(* ops.rs: StructOpsConfig::from_meta and mut_and.                         *)

StructOpsConfig_from_meta(nested) ==
    LET result(r) ==
            IF ~r.ok
            THEN [ok |-> FALSE, config |-> StructOpsConfig_default, err |-> r.err]
            ELSE [ok |-> TRUE,
                  config |-> [add |-> MapGetFlatten(r.map, "Add"),
                              sub |-> MapGetFlatten(r.map, "Sub"),
                              mul |-> MapGetFlatten(r.map, "Mul"),
                              div |-> MapGetFlatten(r.map, "Div")],
                  err |-> NoErr]
    IN  result(collect_meta_map(nested, "StructOpsConfig::from_meta", "unit"))

StructOpsConfig_mut_and(self, other) ==
    [add |-> IF other.add # None THEN other.add ELSE self.add,
     sub |-> IF other.sub # None THEN other.sub ELSE self.sub,
     mul |-> IF other.mul # None THEN other.mul ELSE self.mul,
     div |-> IF other.div # None THEN other.div ELSE self.div]

-----------------------------------------------------------------------------
(* config/struct_config.rs                                                 *)

StructConfig_init ==
    [generate_default |-> FALSE,
     const_default |-> FALSE,
     impl_std_default |-> FALSE,
     partial_default |-> FALSE,
     manual_debug |-> FALSE,
     override_auto_get |-> "No",
     override_auto_set |-> "No",
     cmp |-> StructCmpConfig_default,
     ops |-> StructOpsConfig_default]

\* meta_list_from_attr applied to every attribute: the entries of the
\* `dstruct` lists, in declaration order.  Bare literals are skipped by
\* `if let NestedMeta::Meta(meta)`.
StructMetas(attrs) ==
    SelectSeq(Concat([n \in 1..Len(attrs) |->
                        IF attrs[n].path = "dstruct" THEN attrs[n].nested ELSE <<>>]),
              LAMBDA m : m.shape # "lit")

\* One pass of the `for meta in ml.nested` body: the if/else-if chain on the
\* option name.  Returns the updated config, or the error that is returned.
StructConfig_meta(config, m) ==
    LET ok(c) == [config |-> c, err |-> NoErr]
        fail(msg) == [config |-> config, err |-> <<msg>>]
        flag(field, msg) ==
            CASE m.shape = "path" -> ok([config EXCEPT ![field] = TRUE])
              [] m.shape = "bool" -> ok([config EXCEPT ![field] = m.b])
              [] OTHER -> fail(msg)
        with_cmp(r) == IF r.ok THEN ok([config EXCEPT !.cmp = r.env])
                       ELSE [config |-> config, err |-> r.err]
        with_ops(r) ==
            IF r.ok
            THEN ok([config EXCEPT !.ops = StructOpsConfig_mut_and(config.ops, r.config)])
            ELSE [config |-> config, err |-> r.err]
    IN  CASE m.key = "default" ->
                 flag("generate_default",
                      "'default' argument should be like 'default = true' or simply 'default'")
          [] m.key = "const" ->
                 flag("const_default",
                      "'const' argument should be like 'const = true' or simply 'const'")
          [] m.key = "std_default" ->
                 flag("impl_std_default",
                      "'std_default' argument should be like 'std_default = true' or simply 'std_default'")
          [] m.key = "debug" ->
                 flag("manual_debug",
                      "'debug' argument should be like 'debug = true' or simply 'debug'")
          [] m.key = "partial" ->
                 CASE m.shape = "path" -> ok([config EXCEPT !.partial_default = TRUE])
                   [] m.shape = "bool" -> ok([config EXCEPT !.const_default = m.b])
                   [] OTHER -> fail("'partial' argument should be like 'partial = true' or simply 'partial'")
          [] m.key = "set" ->
                 CASE m.shape = "path" ->
                          ok([config EXCEPT !.override_auto_set = SetterType_default])
                   [] m.shape = "str" ->
                          IF SetterType_from_str(m.s) = None
                          THEN fail("unknown 'set' type")
                          ELSE ok([config EXCEPT
                                      !.override_auto_set = SetterType_from_str(m.s)])
                   [] OTHER -> fail("invalid 'set' value, see the documentation for more information")
          [] m.key = "get" ->
                 CASE m.shape = "path" ->
                          ok([config EXCEPT !.override_auto_get = GetterType_default])
                   [] m.shape = "str" ->
                          IF GetterType_from_str(m.s) = None
                          THEN fail("unknown 'get' type")
                          ELSE ok([config EXCEPT
                                      !.override_auto_get = GetterType_from_str(m.s)])
                   [] OTHER -> fail("invalid 'get' value, see the documentation for more information")
          [] m.key = "cmp" ->
                 IF m.shape = "list"
                 THEN with_cmp(collect_meta_set(m.sub, "StructConfig::cmp", config.cmp))
                 ELSE fail("invalid 'cmp' value, see the documentation for more information")
          [] m.key = "ops" ->
                 IF m.shape = "list"
                 THEN with_ops(StructOpsConfig_from_meta(m.sub))
                 ELSE fail("invalid 'cmp' value, see the documentation for more information")
          [] OTHER -> ok(config)

\* The check that follows the attribute loop of StructConfig::from_attribute.
StructConfig_conflict(config) ==
    (config.generate_default \/ config.const_default) /\ config.partial_default

RECURSIVE StructConfig_loop(_, _)
StructConfig_loop(metas, n) ==
    LET next(acc) ==
            IF acc.err # NoErr THEN acc ELSE StructConfig_meta(acc.config, metas[n])
    IN  IF n = 0
        THEN [config |-> StructConfig_init, err |-> NoErr]
        ELSE next(StructConfig_loop(metas, n - 1))

\* from_attribute with an else arm that rejects an unrecognised name.
StructConfig_from_attribute_reject_unknown(attrs) ==
    LET known == {"default", "const", "std_default", "debug", "partial", "set", "get",
                  "cmp", "ops"}
        result(res) ==
            IF res.err # NoErr
            THEN [ok |-> FALSE, config |-> StructConfig_init, err |-> res.err]
            ELSE IF StructConfig_conflict(res.config)
                 THEN [ok |-> FALSE, config |-> StructConfig_init,
                       err |-> <<"partial default does nothing if all fields have default values.">>]
                 ELSE [ok |-> TRUE, config |-> res.config, err |-> NoErr]
    IN  IF \E n \in 1..Len(StructMetas(attrs)) : StructMetas(attrs)[n].key \notin known
        THEN [ok |-> FALSE, config |-> StructConfig_init, err |-> <<"unknown option">>]
        ELSE result(StructConfig_loop(StructMetas(attrs), Len(StructMetas(attrs))))

StructConfig_from_attribute(attrs) ==
    LET result(res) ==
            IF res.err # NoErr
            THEN [ok |-> FALSE, config |-> StructConfig_init, err |-> res.err]
            ELSE IF StructConfig_conflict(res.config)
                 THEN [ok |-> FALSE, config |-> StructConfig_init,
                       err |-> <<"partial default does nothing if all fields have default values.">>]
                 ELSE [ok |-> TRUE, config |-> res.config, err |-> NoErr]
    IN  result(StructConfig_loop(StructMetas(attrs), Len(StructMetas(attrs))))

\* FieldCmpConfig::from_meta
FieldCmpConfig_from_meta(nested) ==
    LET result(r) == [ok |-> r.ok, config |-> r.env, err |-> r.err]
    IN  result(collect_meta_map(nested, "FieldCmpConfig::from_meta",
                                FieldCmpConfig_default))

-----------------------------------------------------------------------------
(* ops.rs: the field-level operator configuration.  An OpsOperationType is *)
(* [kind, tmpl] with kind Inherit, Ignore or Manual; an unset entry has    *)
(* kind None.                                                              *)

OpsOp(kind, tmpl) == [kind |-> kind, tmpl |-> tmpl]

OpsNone == OpsOp(None, "")

\* #[default] of OpsOperationType.
OpsOperationType_default == OpsOp("Inherit", "")

OpsFieldKeys ==
    {"add", "sub", "mul", "div", "add_assign", "sub_assign", "mul_assign", "div_assign"}

FieldOpsConfig_default == [k \in OpsFieldKeys |-> OpsNone]

OpsOperationType_from_lit(m) ==
    CASE m.shape = "str" ->
             Some(CASE m.s \in {"inherit", "default"} -> OpsOp("Inherit", "")
                    [] m.s \in {"ignore", "no"} -> OpsOp("Ignore", "")
                    [] OTHER -> OpsOp("Manual", m.s))
      [] m.shape = "bool" ->
             Some(IF m.b THEN OpsOp("Inherit", "") ELSE OpsOp("Ignore", ""))
      [] OTHER -> [some |-> FALSE, v |-> OpsNone]

\* FieldOpsConfig::from_meta in which an entry for the plain or the
\* in-place operator of a family sets both policies of the family.
FieldOpsConfig_from_meta_coupled(nested) ==
    LET metas == SelectSeq(nested, LAMBDA m : m.shape # "lit")
        twin(k) == IF k \in {"add", "sub", "mul", "div"} THEN k \o "_assign"
                   ELSE CHOOSE g \in {"add", "sub", "mul", "div"} : g \o "_assign" = k
        step[n \in 0..Len(metas)] ==
            IF n = 0
            THEN [config |-> FieldOpsConfig_default, err |-> NoErr]
            ELSE LET acc == step[n - 1]
                     m == metas[n]
                     bad(msg) == [config |-> acc.config,
                                  err |-> update_or_combine(acc.err, <<msg>>)]
                     set(op) == [config |-> [acc.config EXCEPT ![m.key] = op,
                                                               ![twin(m.key)] = op],
                                 err |-> acc.err]
                 IN  IF m.key \in OpsFieldKeys
                     THEN CASE m.shape = "path" -> set(OpsOperationType_default)
                            [] m.shape = "list" -> bad("invalid ops '" \o m.key \o "' type")
                            [] OTHER ->
                                   IF OpsOperationType_from_lit(m).some
                                   THEN set(OpsOperationType_from_lit(m).v)
                                   ELSE bad("invalid ops operation type")
                     ELSE bad("invalid ops type")
        res == step[Len(metas)]
    IN  [ok |-> res.err = NoErr, config |-> res.config, err |-> res.err]

FieldOpsConfig_from_meta(nested) ==
    LET metas == SelectSeq(nested, LAMBDA m : m.shape # "lit")
        step[n \in 0..Len(metas)] ==
            IF n = 0
            THEN [config |-> FieldOpsConfig_default, err |-> NoErr]
            ELSE LET acc == step[n - 1]
                     m == metas[n]
                     bad(msg) == [config |-> acc.config,
                                  err |-> update_or_combine(acc.err, <<msg>>)]
                     set(op) == [config |-> [acc.config EXCEPT ![m.key] = op],
                                 err |-> acc.err]
                 IN  IF m.key \in OpsFieldKeys
                     THEN CASE m.shape = "path" -> set(OpsOperationType_default)
                            [] m.shape = "list" -> bad("invalid ops '" \o m.key \o "' type")
                            [] OTHER ->
                                   IF OpsOperationType_from_lit(m).some
                                   THEN set(OpsOperationType_from_lit(m).v)
                                   ELSE bad("invalid ops operation type")
                     ELSE bad("invalid ops type")
        res == step[Len(metas)]
    IN  [ok |-> res.err = NoErr, config |-> res.config, err |-> res.err]

-----------------------------------------------------------------------------
(* config/field_config.rs                                                  *)

FieldConfig_init(default_set, default_get) ==
    [default_value |-> NoneExpr,
     init_seq |-> NoneInt,
     auto_set |-> default_set,
     auto_get |-> default_get,
     no_debug |-> FALSE,
     do_with |-> FALSE,
     map |-> FALSE,
     cmp |-> FieldCmpConfig_default,
     ops |-> FieldOpsConfig_default]

\* The entries of the `dfield` lists of a field, in declaration order.
FieldMetas(attrs) ==
    SelectSeq(Concat([n \in 1..Len(attrs) |->
                        IF attrs[n].path = "dfield" THEN attrs[n].nested ELSE <<>>]),
              LAMBDA m : m.shape # "lit")

\* The pass in which a `cmp(..)` group continues from the comparison
\* configuration resolved so far instead of replacing it.
FieldConfig_meta_merge_cmp(config, m) ==
    LET ok(c) == [config |-> c, err |-> NoErr]
        fail(msg) == [config |-> config, err |-> <<msg>>]
        flag(field, name) ==
            CASE m.shape = "path" -> ok([config EXCEPT ![field] = TRUE])
              [] m.shape = "bool" -> ok([config EXCEPT ![field] = m.b])
              [] OTHER -> fail("invalid '" \o name
                               \o "' value, see the documentation for more information")
        with_cmp(r) == IF r.ok THEN ok([config EXCEPT !.cmp = r.config])
                       ELSE [config |-> config, err |-> r.err]
        with_ops(r) == IF r.ok THEN ok([config EXCEPT !.ops = r.config])
                       ELSE [config |-> config, err |-> r.err]
    IN  CASE m.key = "default" ->
                 IF m.shape = "str"
                 THEN IF m.s = ""
                      THEN fail("'default' value should not be empty")
                      ELSE IF ParseExpr(m.s).some
                           THEN ok([config EXCEPT !.default_value = ParseExpr(m.s)])
                           ELSE [config |-> config,
                                 err |-> <<"expected expression",
                                           "'default' value should be a valid expression">>]
                 ELSE fail("invalid 'default' value, see the documentation for more information")
          [] m.key \in {"seq", "sequence"} ->
                 IF m.shape = "int"
                 THEN ok([config EXCEPT !.init_seq = Some(m.i)])
                 ELSE fail("invalid 'seq' value, see the documentation for more information")
          [] m.key = "get" ->
                 CASE m.shape = "path" -> ok([config EXCEPT !.auto_get = GetterType_default])
                   [] m.shape = "str" ->
                          IF GetterType_from_str(m.s) = None
                          THEN fail("unknown 'get' type")
                          ELSE ok([config EXCEPT !.auto_get = GetterType_from_str(m.s)])
                   [] OTHER -> fail("invalid 'get' value, see the documentation for more information")
          [] m.key = "set" ->
                 CASE m.shape = "path" -> ok([config EXCEPT !.auto_set = SetterType_default])
                   [] m.shape = "str" ->
                          IF SetterType_from_str(m.s) = None
                          THEN fail("unknown 'set' type")
                          ELSE ok([config EXCEPT !.auto_set = SetterType_from_str(m.s)])
                   [] OTHER -> fail("invalid 'set' value, see the documentation for more information")
          [] m.key = "do_with" -> flag("do_with", "do_with")
          [] m.key = "map" -> flag("map", "map")
          [] m.key = "no_debug" -> flag("no_debug", "no_debug")
          [] m.key = "cmp" ->
                 IF m.shape = "list"
                 THEN with_cmp([ok |-> collect_meta_map(m.sub, "FieldCmpConfig::from_meta",
                                                    config.cmp).ok,
                           config |-> collect_meta_map(m.sub, "FieldCmpConfig::from_meta",
                                                       config.cmp).env,
                           err |-> collect_meta_map(m.sub, "FieldCmpConfig::from_meta",
                                                    config.cmp).err])
                 ELSE fail("invalid 'cmp' value, see the documentation for more information")
          [] m.key = "ops" ->
                 IF m.shape = "list"
                 THEN with_ops(FieldOpsConfig_from_meta(m.sub))
                 ELSE fail("invalid 'ops' value, see the documentation for more information")
          [] OTHER -> ok(config)

\* One pass of the `for meta in meta_list.nested` body of
\* FieldConfig::from_attribute.
FieldConfig_meta(config, m) ==
    LET ok(c) == [config |-> c, err |-> NoErr]
        fail(msg) == [config |-> config, err |-> <<msg>>]
        flag(field, name) ==
            CASE m.shape = "path" -> ok([config EXCEPT ![field] = TRUE])
              [] m.shape = "bool" -> ok([config EXCEPT ![field] = m.b])
              [] OTHER -> fail("invalid '" \o name
                               \o "' value, see the documentation for more information")
        with_cmp(r) == IF r.ok THEN ok([config EXCEPT !.cmp = r.config])
                       ELSE [config |-> config, err |-> r.err]
        with_ops(r) == IF r.ok THEN ok([config EXCEPT !.ops = r.config])
                       ELSE [config |-> config, err |-> r.err]
    IN  CASE m.key = "default" ->
                 IF m.shape = "str"
                 THEN IF m.s = ""
                      THEN fail("'default' value should not be empty")
                      ELSE IF ParseExpr(m.s).some
                           THEN ok([config EXCEPT !.default_value = ParseExpr(m.s)])
                           ELSE [config |-> config,
                                 err |-> <<"expected expression",
                                           "'default' value should be a valid expression">>]
                 ELSE fail("invalid 'default' value, see the documentation for more information")
          [] m.key \in {"seq", "sequence"} ->
                 IF m.shape = "int"
                 THEN ok([config EXCEPT !.init_seq = Some(m.i)])
                 ELSE fail("invalid 'seq' value, see the documentation for more information")
          [] m.key = "get" ->
                 CASE m.shape = "path" -> ok([config EXCEPT !.auto_get = GetterType_default])
                   [] m.shape = "str" ->
                          IF GetterType_from_str(m.s) = None
                          THEN fail("unknown 'get' type")
                          ELSE ok([config EXCEPT !.auto_get = GetterType_from_str(m.s)])
                   [] OTHER -> fail("invalid 'get' value, see the documentation for more information")
          [] m.key = "set" ->
                 CASE m.shape = "path" -> ok([config EXCEPT !.auto_set = SetterType_default])
                   [] m.shape = "str" ->
                          IF SetterType_from_str(m.s) = None
                          THEN fail("unknown 'set' type")
                          ELSE ok([config EXCEPT !.auto_set = SetterType_from_str(m.s)])
                   [] OTHER -> fail("invalid 'set' value, see the documentation for more information")
          [] m.key = "do_with" -> flag("do_with", "do_with")
          [] m.key = "map" -> flag("map", "map")
          [] m.key = "no_debug" -> flag("no_debug", "no_debug")
          [] m.key = "cmp" ->
                 IF m.shape = "list"
                 THEN with_cmp(FieldCmpConfig_from_meta(m.sub))
                 ELSE fail("invalid 'cmp' value, see the documentation for more information")
          [] m.key = "ops" ->
                 IF m.shape = "list"
                 THEN with_ops(FieldOpsConfig_from_meta(m.sub))
                 ELSE fail("invalid 'ops' value, see the documentation for more information")
          [] OTHER -> ok(config)

RECURSIVE FieldConfig_loop(_, _, _, _)
FieldConfig_loop(metas, default_set, default_get, n) ==
    LET next(acc) ==
            IF acc.err # NoErr THEN acc ELSE FieldConfig_meta(acc.config, metas[n])
    IN  IF n = 0
        THEN [config |-> FieldConfig_init(default_set, default_get), err |-> NoErr]
        ELSE next(FieldConfig_loop(metas, default_set, default_get, n - 1))

\* from_attribute keeping the first occurrence of an option: the options
\* are applied from the last to the first.
FieldConfig_from_attribute_first_wins(attrs, default_set, default_get) ==
    LET result(res) == [ok |-> res.err = NoErr, config |-> res.config, err |-> res.err]
        reversed(ms) == [n \in 1..Len(ms) |-> ms[Len(ms) + 1 - n]]
    IN  result(FieldConfig_loop(reversed(FieldMetas(attrs)), default_set, default_get,
                                Len(FieldMetas(attrs))))

FieldConfig_from_attribute(attrs, default_set, default_get) ==
    LET result(res) == [ok |-> res.err = NoErr, config |-> res.config, err |-> res.err]
    IN  result(FieldConfig_loop(FieldMetas(attrs), default_set, default_get,
                                Len(FieldMetas(attrs))))

-----------------------------------------------------------------------------
(* generate.rs: StructFieldContent and RichStructContent.                  *)

\* A StructField of the parsed declaration (syntax.rs): its name, its
\* attributes and the optional inline `= expr` initialiser.
StructField(ident, attrs, default_value) ==
    [ident |-> ident, attrs |-> attrs, default_value |-> default_value]

\* from_syntax letting the inline initialiser replace the option.
StructFieldContent_from_syntax_inline_first(field, set, get) ==
    LET config(r) == IF field.default_value.some
                     THEN [r.config EXCEPT !.default_value = field.default_value]
                     ELSE r.config
        result(r) == [ok |-> r.ok,
                      content |-> [config |-> config(r), ident |-> field.ident],
                      err |-> r.err]
    IN  result(FieldConfig_from_attribute(field.attrs, set, get))

StructFieldContent_from_syntax(field, set, get) ==
    LET config(r) == IF ~r.config.default_value.some /\ field.default_value.some
                     THEN [r.config EXCEPT !.default_value = field.default_value]
                     ELSE r.config
        result(r) == [ok |-> r.ok,
                      content |-> [config |-> config(r), ident |-> field.ident],
                      err |-> r.err]
    IN  result(FieldConfig_from_attribute(field.attrs, set, get))

\* The sort key that ignores the `seq` override: the declaration index.
SeqKey_declaration_index(field_content, idx) == idx

\* The sort key that from_syntax pairs with the field at 0-based index idx.
SeqKey(field_content, idx) ==
    IF field_content.config.init_seq.some
    THEN field_content.config.init_seq.v
    ELSE idx

\* sorted_by_key with an unstable sort: an item is placed in front of the
\* items that have the same key.
sorted_by_key_unstable(pairs) ==
    LET insert(acc, p) ==
            LET pos == Cardinality({j \in 1..Len(acc) : acc[j].key < p.key})
            IN  SubSeq(acc, 1, pos) \o <<p>> \o SubSeq(acc, pos + 1, Len(acc))
        step[n \in 0..Len(pairs)] ==
            IF n = 0 THEN <<>> ELSE insert(step[n - 1], pairs[n])
        sorted == step[Len(pairs)]
    IN  [n \in 1..Len(pairs) |-> sorted[n].item]

\* Itertools::sorted_by_key on (item, key) pairs: a stable sort, returned
\* without the keys.  pairs[n] = [item, key].
sorted_by_key(pairs) ==
    LET insert(acc, p) ==
            LET pos == Cardinality({j \in 1..Len(acc) : acc[j].key <= p.key})
            IN  SubSeq(acc, 1, pos) \o <<p>> \o SubSeq(acc, pos + 1, Len(acc))
        step[n \in 0..Len(pairs)] ==
            IF n = 0 THEN <<>> ELSE insert(step[n - 1], pairs[n])
        sorted == step[Len(pairs)]
    IN  [n \in 1..Len(pairs) |-> sorted[n].item]

RichStructContent_fields(s, config) ==
    [n \in 1..Len(s.fields) |->
       StructFieldContent_from_syntax(s.fields[n], config.override_auto_set,
                                      config.override_auto_get)]

RichStructContent_from_syntax(s) ==
    LET bad(res) == {n \in 1..Len(s.fields) : ~res[n].ok}
        first(res) == CHOOSE n \in bad(res) : \A k \in bad(res) : n <= k
        pairs(res) == [n \in 1..Len(s.fields) |->
                         [item |-> res[n].content, key |-> SeqKey(res[n].content, n - 1)]]
        collect(c, res) ==
            IF bad(res) # {}
            THEN [ok |-> FALSE, config |-> c.config, fields |-> <<>>,
                  err |-> res[first(res)].err]
            ELSE [ok |-> TRUE, config |-> c.config, fields |-> sorted_by_key(pairs(res)),
                  err |-> NoErr]
        result(c) ==
            IF ~c.ok
            THEN [ok |-> FALSE, config |-> c.config, fields |-> <<>>, err |-> c.err]
            ELSE collect(c, RichStructContent_fields(s, c.config))
    IN  result(StructConfig_from_attribute(s.attrs))

-----------------------------------------------------------------------------
(* generate.rs: the members emitted for defaults, accessors and Debug.     *)
(* A constructor body is the `let` statements in emission order and the    *)
(* field names of the final `Self { .. }` expression.                      *)

Idents(fields) == [n \in 1..Len(fields) |-> fields[n].ident]

NoBody == [params |-> <<>>, stmts |-> <<>>, idents |-> <<>>]

Absent == [present |-> FALSE, body |-> NoBody]

Emitted(body) == [present |-> TRUE, body |-> body]

\* can_impl_default without the check of the fields.
can_impl_default_always(self) == TRUE

can_impl_default(self) ==
    \A n \in 1..Len(self.fields) : self.fields[n].config.default_value.some

\* impl_default_construct emitting the bindings in reverse field order.
impl_default_construct_reversed(self) ==
    [params |-> <<>>,
     stmts |-> [n \in 1..Len(self.fields) |->
                  [name |-> self.fields[Len(self.fields) + 1 - n].ident,
                   expr |-> self.fields[Len(self.fields) + 1 - n].config.default_value.v]],
     idents |-> Idents(self.fields)]

impl_default_construct(self) ==
    [params |-> <<>>,
     stmts |-> [n \in 1..Len(self.fields) |->
                  [name |-> self.fields[n].ident,
                   expr |-> self.fields[n].config.default_value.v]],
     idents |-> Idents(self.fields)]

\* impl DataStruct: fn data_default() -> Self
impl_default(self) == Emitted(impl_default_construct(self))

\* impl_std_default built from its own binding sequence, in reverse order.
impl_std_default_reversed(self) ==
    [present |-> TRUE, body |-> impl_default_construct_reversed(self)]

\* impl Default: fn default() -> Self
impl_std_default(self) == Emitted(impl_default_construct(self))

\* impl ConstDataStruct: const DEFAULT: Self
impl_const_default(self) == Emitted(impl_default_construct(self))

\* impl_partial_default that takes every field as a parameter.
impl_partial_default_all_params(self) ==
    LET default == SelectSeq(self.fields, LAMBDA f : f.config.default_value.some)
    IN  [present |-> TRUE,
         body |-> [params |-> Idents(self.fields),
                   stmts |-> [n \in 1..Len(default) |->
                                [name |-> default[n].ident,
                                 expr |-> default[n].config.default_value.v]],
                   idents |-> Idents(self.fields)]]

impl_partial_default(self) ==
    LET default == SelectSeq(self.fields, LAMBDA f : f.config.default_value.some)
        non_default == SelectSeq(self.fields, LAMBDA f : ~f.config.default_value.some)
    IN  Emitted([params |-> Idents(non_default),
                 stmts |-> [n \in 1..Len(default) |->
                              [name |-> default[n].ident,
                               expr |-> default[n].config.default_value.v]],
                 idents |-> Idents(self.fields)])

\* to_code with the Set and With arms exchanged.
SetterType_to_code_swapped(mode) ==
    CASE mode = "Full" -> <<"set", "with">>
      [] mode = "Set" -> <<"with">>
      [] mode = "With" -> <<"set">>
      [] OTHER -> <<>>

\* SetterType::to_code and GetterType::to_code: the kinds of the methods.
SetterType_to_code(mode) ==
    CASE mode = "Full" -> <<"set", "with">>
      [] mode = "Set" -> <<"set">>
      [] mode = "With" -> <<"with">>
      [] OTHER -> <<>>

GetterType_to_code(mode) ==
    CASE mode = "Full" -> <<"get", "move">>
      [] mode = "Get" -> <<"get">>
      [] mode = "Move" -> <<"move">>
      [] OTHER -> <<>>

\* StructFieldContent::generate_impl_code: the methods of one field.
generate_impl_code(field) ==
    LET kinds == GetterType_to_code(field.config.auto_get)
                 \o SetterType_to_code(field.config.auto_set)
                 \o (IF field.config.do_with THEN <<"do_with">> ELSE <<>>)
                 \o (IF field.config.map THEN <<"map">> ELSE <<>>)
    IN  [n \in 1..Len(kinds) |-> [kind |-> kinds[n], field |-> field.ident]]

\* RichStructContent::generate_impl: the inherent impl block.
generate_impl(self) ==
    [fns |-> Concat([n \in 1..Len(self.fields) |-> generate_impl_code(self.fields[n])]),
     p_default |-> IF self.config.partial_default
                   THEN impl_partial_default(self)
                   ELSE Absent]

\* impl_debug without the filter on no_debug.
impl_debug_unfiltered(self) ==
    [present |-> TRUE, fields |-> Idents(self.fields)]

\* impl Debug: the fields passed to debug_struct, in order.
impl_debug(self) ==
    [present |-> TRUE,
     fields |-> Idents(SelectSeq(self.fields, LAMBDA f : ~f.config.no_debug))]

-----------------------------------------------------------------------------
(* cmp.rs: the comparison members.                                         *)

\* impl PartialEq: the fields of the `(self.f == rhs.f)` terms joined by &&.
impl_partial_eq(s) ==
    [present |-> TRUE,
     equations |-> Idents(SelectSeq(s.fields, LAMBDA f : f.config.cmp.eq))]

\* The ranked fields in field order, without the sort by rank.
RankedIdents_unsorted(s, key) ==
    Idents(SelectSeq(s.fields, LAMBDA f : f.config.cmp[key].some))

\* The fields that carry a rank under `key`, stably sorted by that rank.
RankedIdents(s, key) ==
    LET ranked == SelectSeq(s.fields, LAMBDA f : f.config.cmp[key].some)
    IN  sorted_by_key([n \in 1..Len(ranked) |->
                         [item |-> ranked[n].ident, key |-> ranked[n].config.cmp[key].v]])

\* impl_ord that emits the chain whatever the number of ranked fields.
impl_ord_unchecked(s) ==
    [ok |-> TRUE,
     cmp_seq |-> Idents(SelectSeq(s.fields, LAMBDA f : f.config.cmp.ord.some)),
     err |-> NoErr]

\* impl Ord: base.then_with(..).then_with(..) over cmp_seq.
impl_ord(s) ==
    LET result(cmp_seq) ==
            IF cmp_seq = <<>>
            THEN [ok |-> FALSE, cmp_seq |-> <<>>,
                  err |-> <<"at least one field can be 'ord'ed if you want to derive 'cmp.ord'">>]
            ELSE [ok |-> TRUE, cmp_seq |-> cmp_seq, err |-> NoErr]
    IN  result(RankedIdents(s, "ord"))

\* impl PartialOrd: base.and_then(|o| next.map(|n| o.then(n)))... over cmp_seq.
impl_partial_ord(s) ==
    LET result(cmp_seq) ==
            IF cmp_seq = <<>>
            THEN [ok |-> FALSE, cmp_seq |-> <<>>,
                  err |-> <<"at least one field can be 'partial_ord'ed if you want to derive 'cmp.partial_ord'">>]
            ELSE [ok |-> TRUE, cmp_seq |-> cmp_seq, err |-> NoErr]
    IN  result(RankedIdents(s, "partial_ord"))

NoOrd == [present |-> FALSE, cmp_seq |-> <<>>]

\* kind "some_cmp" is `Some(self.cmp(rhs))`, kind "chain" the independent chain.
NoPartialOrd == [present |-> FALSE, kind |-> None, cmp_seq |-> <<>>]

\* impl_rich_ord without the `Some(self.cmp(rhs))` branch: PartialOrd is
\* always the independent chain.
impl_rich_ord_no_shortcut(s) ==
    LET fail(e) == [ok |-> FALSE, ord |-> NoOrd, partial_ord |-> NoPartialOrd, err |-> e]
        ord_ts(o) == IF s.config.cmp.ord
                     THEN [present |-> TRUE, cmp_seq |-> o.cmp_seq]
                     ELSE NoOrd
        result(o, po) ==
            IF s.config.cmp.ord /\ ~o.ok
            THEN fail(o.err)
            ELSE IF s.config.cmp.partial_ord
                 THEN IF po.ok
                      THEN [ok |-> TRUE, ord |-> ord_ts(o),
                            partial_ord |-> [present |-> TRUE, kind |-> "chain",
                                             cmp_seq |-> po.cmp_seq],
                            err |-> NoErr]
                      ELSE fail(po.err)
                 ELSE [ok |-> TRUE, ord |-> ord_ts(o), partial_ord |-> NoPartialOrd,
                       err |-> NoErr]
    IN  result(impl_ord(s), impl_partial_ord(s))

impl_rich_ord(s) ==
    LET shortcut == /\ s.config.cmp.ord
                    /\ s.config.cmp.partial_ord
                    /\ \A n \in 1..Len(s.fields) : ~s.fields[n].config.cmp.partial_ord.some
        ord_ts(o) == IF s.config.cmp.ord
                     THEN [present |-> TRUE, cmp_seq |-> o.cmp_seq]
                     ELSE NoOrd
        fail(e) == [ok |-> FALSE, ord |-> NoOrd, partial_ord |-> NoPartialOrd, err |-> e]
        result(o, po) ==
            IF s.config.cmp.ord /\ ~o.ok
            THEN fail(o.err)
            ELSE IF shortcut
                 THEN [ok |-> TRUE, ord |-> ord_ts(o),
                       partial_ord |-> [present |-> TRUE, kind |-> "some_cmp",
                                        cmp_seq |-> <<>>],
                       err |-> NoErr]
                 ELSE IF s.config.cmp.partial_ord
                      THEN IF po.ok
                           THEN [ok |-> TRUE, ord |-> ord_ts(o),
                                 partial_ord |-> [present |-> TRUE, kind |-> "chain",
                                                  cmp_seq |-> po.cmp_seq],
                                 err |-> NoErr]
                           ELSE fail(po.err)
                      ELSE [ok |-> TRUE, ord |-> ord_ts(o), partial_ord |-> NoPartialOrd,
                            err |-> NoErr]
    IN  result(impl_ord(s), impl_partial_ord(s))

NoCmp ==
    [partial_eq |-> [present |-> FALSE, equations |-> <<>>], eq |-> FALSE,
     ord |-> NoOrd, partial_ord |-> NoPartialOrd]

impl_cmp(s) ==
    LET result(r) ==
            IF ~r.ok
            THEN [ok |-> FALSE, ts |-> NoCmp, err |-> r.err]
            ELSE [ok |-> TRUE,
                  ts |-> [partial_eq |-> IF s.config.cmp.partial_eq
                                         THEN impl_partial_eq(s)
                                         ELSE NoCmp.partial_eq,
                          eq |-> s.config.cmp.eq,
                          ord |-> r.ord,
                          partial_ord |-> r.partial_ord],
                  err |-> NoErr]
    IN  result(impl_rich_ord(s))

-----------------------------------------------------------------------------
(* ops.rs: the operator members.  A manual template is a string; Lex gives *)
(* its reading as an expression over operands `base.field`, where a base   *)
(* is one of the words of the string ("$self", "$rhs", "self", ...).       *)

Operand(base, field) == [base |-> base, field |-> field]

\* [tokens: the text lexes to a token stream, expr: it parses as an
\*  expression, op, args]
Template(tokens, expr, op, args) ==
    [tokens |-> tokens, expr |-> expr, op |-> op, args |-> args]

Lex(s) ==
    CASE s = "std::cmp::max($self.a, $rhs.a)" ->
             Template(TRUE, TRUE, "max", <<Operand("$self", "a"), Operand("$rhs", "a")>>)
      [] s = "std::cmp::min($self.a, $rhs.a)" ->
             Template(TRUE, TRUE, "min", <<Operand("$self", "a"), Operand("$rhs", "a")>>)
      [] s = "$rhs.a" ->
             Template(TRUE, TRUE, "id", <<Operand("$rhs", "a")>>)
      [] s = "$self.a +" ->
             Template(TRUE, FALSE, "+", <<Operand("$self", "a")>>)
      [] OTHER -> Template(FALSE, FALSE, "", <<>>)

\* str::replace on the text that a template was lexed from: every
\* occurrence of the word `from` becomes `to`.
str_replace(tmpl, from, to) ==
    [tmpl EXCEPT !.args = [n \in 1..Len(tmpl.args) |->
                             IF tmpl.args[n].base = from
                             THEN Operand(to, tmpl.args[n].field)
                             ELSE tmpl.args[n]]]

\* The substitution without its second replace: `$rhs` is left in place.
Substitute_self_only(s) == str_replace(Lex(s), "$self", "self")

\* s.replace("$self", "self").replace("$rhs", "rhs")
Substitute(s) == str_replace(str_replace(Lex(s), "$self", "self"), "$rhs", "rhs")

NoTemplate == Template(FALSE, FALSE, "", <<>>)

\* _impl_ops with the Ignore arm dropped: every non-manual field is combined.
OpsOperationType_impl_ops_no_ignore(self, ident, op_ident) ==
    IF self.kind \in {"Ignore", "Inherit"}
    THEN [ok |-> TRUE, kind |-> "binop", op |-> op_ident, tmpl |-> NoTemplate,
          err |-> NoErr]
    ELSE [ok |-> Substitute(self.tmpl).tokens, kind |-> "manual", op |-> "",
          tmpl |-> Substitute(self.tmpl), err |-> NoErr]

\* OpsOperationType::_impl_ops: the value expression of one field.
\* op_ident is one of "+", "-", "*", "/".
OpsOperationType_impl_ops(self, ident, op_ident) ==
    CASE self.kind = "Ignore" ->
             [ok |-> TRUE, kind |-> "self", op |-> "", tmpl |-> NoTemplate, err |-> NoErr]
      [] self.kind = "Inherit" ->
             [ok |-> TRUE, kind |-> "binop", op |-> op_ident, tmpl |-> NoTemplate,
              err |-> NoErr]
      [] OTHER ->
             IF Substitute(self.tmpl).tokens
             THEN [ok |-> TRUE, kind |-> "manual", op |-> "",
                   tmpl |-> Substitute(self.tmpl), err |-> NoErr]
             ELSE [ok |-> FALSE, kind |-> "manual", op |-> "", tmpl |-> NoTemplate,
                   err |-> <<"cannot parse string into token stream">>]

\* _impl_ops_assign with the Ignore arm dropped.
OpsOperationType_impl_ops_assign_no_ignore(self, ident, op_ident) ==
    IF self.kind \in {"Ignore", "Inherit"}
    THEN [ok |-> TRUE, kind |-> "binop_assign", op |-> op_ident, tmpl |-> NoTemplate,
          err |-> NoErr]
    ELSE [ok |-> Substitute(self.tmpl).expr, kind |-> "assign_manual", op |-> "",
          tmpl |-> Substitute(self.tmpl), err |-> NoErr]

\* OpsOperationType::_impl_ops_assign: the statement of one field.
\* op_ident is one of "+=", "-=", "*=", "/=".
OpsOperationType_impl_ops_assign(self, ident, op_ident) ==
    CASE self.kind = "Ignore" ->
             [ok |-> TRUE, kind |-> "empty", op |-> "", tmpl |-> NoTemplate, err |-> NoErr]
      [] self.kind = "Inherit" ->
             [ok |-> TRUE, kind |-> "binop_assign", op |-> op_ident, tmpl |-> NoTemplate,
              err |-> NoErr]
      [] OTHER ->
             IF Substitute(self.tmpl).expr
             THEN [ok |-> TRUE, kind |-> "assign_manual", op |-> "",
                   tmpl |-> Substitute(self.tmpl), err |-> NoErr]
             ELSE [ok |-> FALSE, kind |-> "assign_manual", op |-> "", tmpl |-> NoTemplate,
                   err |-> <<"expected expression">>]

\* Option::unwrap_or_default on a field's entry.
OpsUnwrapOrDefault(op) == IF op.kind = None THEN OpsOperationType_default ELSE op

\* __help_impl_struct_impl_ops: the body of one operator impl.  `key` is
\* the FieldOpsConfig entry, `assign` selects the in-place form.
StructImplOps(s, key, op_ident, assign) ==
    LET result(res) ==
            IF Concat([n \in 1..Len(s.fields) |-> res[n].err]) # NoErr
            THEN [ok |-> FALSE, fields |-> <<>>,
                  err |-> Concat([n \in 1..Len(s.fields) |-> res[n].err])]
            ELSE [ok |-> TRUE,
                  fields |-> [n \in 1..Len(s.fields) |->
                                [ident |-> s.fields[n].ident, kind |-> res[n].kind,
                                 op |-> res[n].op, tmpl |-> res[n].tmpl]],
                  err |-> NoErr]
    IN  result([n \in 1..Len(s.fields) |->
                  IF assign
                  THEN OpsOperationType_impl_ops_assign(
                           OpsUnwrapOrDefault(s.fields[n].config.ops[key]),
                           s.fields[n].ident, op_ident)
                  ELSE OpsOperationType_impl_ops(
                           OpsUnwrapOrDefault(s.fields[n].config.ops[key]),
                           s.fields[n].ident, op_ident)])

NoOpsImpl == [present |-> FALSE, fields |-> <<>>]

OpsFamilies == <<"add", "sub", "mul", "div">>

OpsSymbol(family) ==
    CASE family = "add" -> "+" [] family = "sub" -> "-"
      [] family = "mul" -> "*" [] OTHER -> "/"

\* One arm of __help_impl_ops_item: the impl of the FieldOpsConfig entry k,
\* if the structure asks for it.
impl_ops_item(s, k) ==
    LET assign == k \notin Range(OpsFamilies)
        f == IF assign THEN CHOOSE g \in Range(OpsFamilies) : g \o "_assign" = k ELSE k
        wanted == s.config.ops[f] \in (IF assign THEN {"Both", "Assign"}
                                       ELSE {"Both", "Plain"})
        item(r) == [present |-> TRUE, fields |-> r.fields, err |-> r.err]
    IN  IF wanted
        THEN item(StructImplOps(s, k, IF assign THEN OpsSymbol(f) \o "=" ELSE OpsSymbol(f),
                                assign))
        ELSE [present |-> FALSE, fields |-> <<>>, err |-> NoErr]

\* StructOpsConfig::impl_ops: per family the plain and the in-place impl.
impl_ops(s) ==
    LET order == <<"add", "add_assign", "sub", "sub_assign",
                   "mul", "mul_assign", "div", "div_assign">>
        errs(items) == Concat([n \in 1..Len(order) |-> items[order[n]].err])
        result(items) ==
            IF errs(items) # NoErr
            THEN [ok |-> FALSE, ts |-> [k \in OpsFieldKeys |-> NoOpsImpl],
                  err |-> errs(items)]
            ELSE [ok |-> TRUE,
                  ts |-> [k \in OpsFieldKeys |->
                            [present |-> items[k].present, fields |-> items[k].fields]],
                  err |-> NoErr]
    IN  result([k \in OpsFieldKeys |-> impl_ops_item(s, k)])

-----------------------------------------------------------------------------
(* generate.rs: RichStructContent::to_impl.                                *)

NoOutput ==
    [impl_ |-> [fns |-> <<>>, p_default |-> Absent],
     default |-> Absent, const_default |-> Absent, std_default |-> Absent,
     debug_impl |-> [present |-> FALSE, fields |-> <<>>],
     cmp_impl |-> NoCmp,
     ops_impl |-> [k \in OpsFieldKeys |-> NoOpsImpl]]

to_impl(self) ==
    LET members(cmp_impl, ops_impl) ==
            [impl_ |-> generate_impl(self),
             default |->
                 IF can_impl_default(self) /\ self.config.generate_default
                 THEN impl_default(self) ELSE Absent,
             const_default |->
                 IF can_impl_default(self) /\ self.config.const_default
                 THEN impl_const_default(self) ELSE Absent,
             std_default |->
                 IF can_impl_default(self) /\ self.config.impl_std_default
                 THEN impl_std_default(self) ELSE Absent,
             debug_impl |->
                 IF self.config.manual_debug
                 THEN impl_debug(self)
                 ELSE NoOutput.debug_impl,
             cmp_impl |-> cmp_impl.ts,
             ops_impl |-> ops_impl.ts]
        result(cmp_impl, ops_impl) ==
            IF ~cmp_impl.ok
            THEN [ok |-> FALSE, ts |-> NoOutput, err |-> cmp_impl.err]
            ELSE IF ~ops_impl.ok
                 THEN [ok |-> FALSE, ts |-> NoOutput, err |-> ops_impl.err]
                 ELSE [ok |-> TRUE, ts |-> members(cmp_impl, ops_impl), err |-> NoErr]
    IN  result(impl_cmp(self), impl_ops(self))

-----------------------------------------------------------------------------
(* The meaning of the emitted members, as the Rust compiler gives it.      *)

\* The values of the instances: one value of 0..MaxVal per field.
Instances(idents) == [Range(idents) -> 0..MaxVal]

\* A constructor body run with the arguments `args` (parameter -> value):
\* the `let` statements in order, each expression resolved against the
\* bindings made so far, then `Self { idents }`.  A name that is not bound
\* where it is used does not compile (ok = FALSE).
EvalConstruct(body, args) ==
    LET step[n \in 0..Len(body.stmts)] ==
            IF n = 0
            THEN [ok |-> TRUE, env |-> args]
            ELSE LET acc == step[n - 1]
                     st == body.stmts[n]
                 IN  IF ~acc.ok THEN acc
                     ELSE IF st.expr.kind = "lit"
                          THEN [ok |-> TRUE, env |-> MapInsert(acc.env, st.name, st.expr.n)]
                          ELSE IF st.expr.ref \in DOMAIN acc.env
                               THEN [ok |-> TRUE,
                                     env |-> MapInsert(acc.env, st.name,
                                                       acc.env[st.expr.ref] + st.expr.n)]
                               ELSE [ok |-> FALSE, env |-> acc.env]
        res == step[Len(body.stmts)]
    IN  IF res.ok /\ Range(body.idents) \subseteq DOMAIN res.env
        THEN [ok |-> TRUE, value |-> [f \in Range(body.idents) |-> res.env[f]]]
        ELSE [ok |-> FALSE, value |-> <<>>]

\* fn eq(&self, rhs: &Self) -> bool { (self.f1 == rhs.f1) && ... }
\* With no term the block is empty and has type (), which is not bool: the
\* impl does not compile (ok = FALSE).
EvalPartialEq(equations, a, b) ==
    IF equations = <<>>
    THEN [ok |-> FALSE, v |-> FALSE]
    ELSE [ok |-> TRUE, v |-> \A n \in 1..Len(equations) : a[equations[n]] = b[equations[n]]]

\* Ord::cmp on two field values.
Cmp(x, y) == IF x < y THEN "Less" ELSE IF x > y THEN "Greater" ELSE "Equal"

\* self.f1.cmp(&other.f1).then_with(|| self.f2.cmp(&other.f2))...
EvalOrd(cmp_seq, a, b) ==
    LET step[n \in 1..Len(cmp_seq)] ==
            IF n = 1
            THEN Cmp(a[cmp_seq[1]], b[cmp_seq[1]])
            ELSE LET acc == step[n - 1]
                 IN  IF acc = "Equal" THEN Cmp(a[cmp_seq[n]], b[cmp_seq[n]]) ELSE acc
    IN  step[Len(cmp_seq)]

\* Ordering::then
OrderingThen(o, n) == IF o = "Equal" THEN n ELSE o

\* Option<Ordering>
SomeOrdering(o) == [some |-> TRUE, v |-> o]

NoneOrdering == [some |-> FALSE, v |-> "Equal"]

\* The value of a floating-point field that is not ordered against any
\* value, itself included.
NaN == -1

\* PartialOrd::partial_cmp on two field values: absent when one of them is
\* NaN, the total order of the two numbers otherwise.
PartialCmp(x, y) ==
    IF x = NaN \/ y = NaN THEN NoneOrdering ELSE SomeOrdering(Cmp(x, y))

\* The chain with `or_else`-like short circuit: a non-equal result so far
\* is returned without looking at the later fields.
EvalPartialChain_short_circuit(cmp_seq, a, b) ==
    LET step[n \in 1..Len(cmp_seq)] ==
            IF n = 1
            THEN PartialCmp(a[cmp_seq[1]], b[cmp_seq[1]])
            ELSE LET acc == step[n - 1]
                 IN  IF acc.some /\ acc.v = "Equal"
                     THEN PartialCmp(a[cmp_seq[n]], b[cmp_seq[n]])
                     ELSE acc
    IN  step[Len(cmp_seq)]

\* base.and_then(|o| next.map(|n| o.then(n)))... over cmp_seq
EvalPartialChain(cmp_seq, a, b) ==
    LET step[n \in 1..Len(cmp_seq)] ==
            IF n = 1
            THEN PartialCmp(a[cmp_seq[1]], b[cmp_seq[1]])
            ELSE LET acc == step[n - 1]
                     next == PartialCmp(a[cmp_seq[n]], b[cmp_seq[n]])
                 IN  IF acc.some /\ next.some
                     THEN SomeOrdering(OrderingThen(acc.v, next.v))
                     ELSE NoneOrdering
    IN  step[Len(cmp_seq)]

\* The emitted partial_cmp: `Some(self.cmp(rhs))` with the emitted Ord, or
\* the independent chain.
EvalPartialOrd(partial_ord, ord, a, b) ==
    IF partial_ord.kind = "some_cmp"
    THEN SomeOrdering(EvalOrd(ord.cmp_seq, a, b))
    ELSE EvalPartialChain(partial_ord.cmp_seq, a, b)

\* A substituted template as an expression of a body whose `self` is a
\* and whose `rhs` is b; any other base is not a name in scope, and then
\* the expression has no value.
EvalTemplate(tmpl, a, b) ==
    LET OperandValue(o) ==
            CASE o.base = "self" /\ o.field \in DOMAIN a -> Some(a[o.field])
              [] o.base = "rhs" /\ o.field \in DOMAIN b -> Some(b[o.field])
              [] OTHER -> NoneInt
        vals == [n \in 1..Len(tmpl.args) |-> OperandValue(tmpl.args[n])]
    IN  IF ~tmpl.expr \/ \E n \in 1..Len(vals) : ~vals[n].some
        THEN NoneInt
        ELSE CASE tmpl.op = "max" ->
                      Some(IF vals[1].v >= vals[2].v THEN vals[1].v ELSE vals[2].v)
               [] tmpl.op = "min" ->
                      Some(IF vals[1].v <= vals[2].v THEN vals[1].v ELSE vals[2].v)
               [] OTHER -> Some(vals[1].v)

\* `l op r` and `l op= r` on integers; a division by zero panics.
BinOp(op, l, r) ==
    CASE op \in {"+", "+="} -> Some(l + r)
      [] op \in {"-", "-="} -> Some(l - r)
      [] op \in {"*", "*="} -> Some(l * r)
      [] OTHER -> IF r = 0 THEN NoneInt ELSE Some(l \div r)

\* fn add(self, rhs: Self) -> Self { Self { f1: e1, f2: e2, .. } }
\* The literal compiles when it names every field of the structure once;
\* value[f] is the Option of field f (None: the expression has no value).
EvalOps(fields, a, b) ==
    LET EvalOpsField(f) ==
            CASE f.kind = "self" -> Some(a[f.ident])
              [] f.kind = "binop" -> BinOp(f.op, a[f.ident], b[f.ident])
              [] OTHER -> EvalTemplate(f.tmpl, a, b)
    IN  [compiles |-> /\ Len(fields) = Cardinality(DOMAIN a)
                      /\ {fields[n].ident : n \in 1..Len(fields)} = DOMAIN a,
         value |-> [f \in {fields[n].ident : n \in 1..Len(fields)} |->
                      EvalOpsField(fields[CHOOSE n \in 1..Len(fields) :
                                              fields[n].ident = f])]]

\* fn add_assign(&mut self, rhs: Self) { s1; s2; .. }: the statements in
\* order on the left operand; an empty statement changes nothing.
EvalOpsAssign(fields, a, b) ==
    LET assign(f, env, v) ==
            IF v.some THEN [ok |-> TRUE, env |-> MapInsert(env, f.ident, v.v)]
            ELSE [ok |-> FALSE, env |-> env]
        EvalOpsStatement(f, env) ==
            CASE f.kind = "empty" -> [ok |-> TRUE, env |-> env]
              [] f.kind = "binop_assign" ->
                     assign(f, env, BinOp(f.op, env[f.ident], b[f.ident]))
              [] OTHER -> assign(f, env, EvalTemplate(f.tmpl, env, b))
        step[n \in 0..Len(fields)] ==
            IF n = 0 THEN [ok |-> TRUE, env |-> a]
            ELSE IF ~step[n - 1].ok THEN step[n - 1]
                 ELSE EvalOpsStatement(fields[n], step[n - 1].env)
    IN  step[Len(fields)]

-----------------------------------------------------------------------------
(* The declarations handed to the macro.  Field n is named Names[n].  A    *)
(* declaration is drawn from one of several families, each varying the     *)
(* options of one concern over every combination within the bounds.        *)

Names == <<"a", "b", "c", "d">>

\* The sequences of length 0..n over the set S.
SeqsUpTo(S, n) == UNION {[1..k -> S] : k \in 0..n}

\* A structure whose field n has the attributes attrs[n] and the inline
\* initialiser inline[n].
Declaration(struct_attrs, attrs, inline) ==
    [attrs |-> struct_attrs,
     fields |-> [n \in 1..Len(attrs) |-> StructField(Names[n], attrs[n], inline[n])]]

\* One `#[dfield(..)]` attribute per non-empty option group.
FieldAttrs(groups) ==
    LET used == SelectSeq(groups, LAMBDA g : g # <<>>)
    IN  [n \in 1..Len(used) |-> Attr("dfield", used[n])]

\* `#[dstruct(k1, k2, ..)]` with bare flags.
StructFlags(keys) == <<Attr("dstruct", [n \in 1..Len(keys) |-> MPath(keys[n])])>>

\* `#[dstruct(cmp(k1, k2, ..))]`
StructCmp(keys) ==
    <<Attr("dstruct", <<MList("cmp", [n \in 1..Len(keys) |-> MPath(keys[n])])>>)>>

SeqChoices == {<<>>, <<MInt("seq", -1)>>, <<MInt("sequence", 1)>>}

\* [opts: the `default` option group, inline: the `= expr` initialiser]
DefaultChoices ==
    {[opts |-> <<>>, inline |-> NoneExpr],
     [opts |-> <<MStr("default", "1")>>, inline |-> NoneExpr],
     [opts |-> <<MStr("default", "a + 1")>>, inline |-> Some(ELit(2))],
     [opts |-> <<MStr("default", "b + 1")>>, inline |-> NoneExpr],
     [opts |-> <<>>, inline |-> Some(ELit(2))]}

DefaultModes ==
    {<<>>, <<"default">>, <<"const">>, <<"std_default">>,
     <<"default", "const", "std_default">>, <<"partial">>}

\* Family 1: default modes, default expressions and initialisation order.
\* A structure of more than two fields requests every full default at once
\* or the partial default.
DeclsDefault(decl) ==
    \E k \in 1..MaxFields :
        \E m \in (IF k > 2 THEN {<<"default", "const", "std_default">>, <<"partial">>}
                  ELSE DefaultModes),
           d \in [1..k -> DefaultChoices], q \in [1..k -> SeqChoices] :
            decl = Declaration(StructFlags(m),
                               [n \in 1..k |-> FieldAttrs(<<d[n].opts, q[n]>>)],
                               [n \in 1..k |-> d[n].inline])

StructOptions ==
    {MPath("default"), MBool("default", FALSE), MPath("const"), MPath("std_default"),
     MPath("partial"), MBool("partial", TRUE), MBool("partial", FALSE),
     MStr("default", "yes"), MPath("debug"), MPath("unknown")}

\* The fields of the declarations of family 2: one with a default, or two
\* of which the second has none.
StructFamilyFields ==
    {<<FieldAttrs(<<<<MStr("default", "1")>>>>)>>,
     <<FieldAttrs(<<<<MStr("default", "1")>>>>), <<>>>>}

\* Family 2: every sequence of structure-level options in one group.
DeclsStruct(decl) ==
    \E opts \in SeqsUpTo(StructOptions, MaxStructOpts), fa \in StructFamilyFields :
        decl = Declaration(<<Attr("dstruct", opts)>>, fa,
                           [n \in 1..Len(fa) |-> NoneExpr])

EqChoices ==
    {<<>>, <<MList("cmp", <<MBool("eq", FALSE)>>)>>,
     <<MList("cmp", <<MStr("peq", "true")>>)>>}

EqModes == {<<"peq">>, <<"eq", "partial_eq">>, <<"eq">>}

\* Family 3: equality switches and the fields' equality participation.
DeclsEq(decl) ==
    \E k \in 1..MaxFields :
        \E m \in EqModes, c \in [1..k -> EqChoices], q \in [1..k -> SeqChoices] :
            decl = Declaration(StructCmp(m),
                               [n \in 1..k |-> FieldAttrs(<<c[n], q[n]>>)],
                               [n \in 1..k |-> NoneExpr])

\* `cmp(..)` groups that give ordering ranks: a bare key takes its index
\* in the group as rank.
OrdChoices ==
    {<<>>,
     <<MList("cmp", <<MPath("ord")>>)>>,
     <<MList("cmp", <<MInt("ord", -1)>>)>>,
     <<MList("cmp", <<MPath("pord")>>)>>,
     <<MList("cmp", <<MBool("eq", FALSE), MPath("cmp"), MStr("pcmp", "-1")>>)>>,
     <<MList("cmp", <<MPath("ord"), MBool("ord", FALSE)>>)>>}

OrdModes == {<<"ord">>, <<"pord">>, <<"ord", "pord">>, <<"cmp", "partial_cmp", "peq">>}

\* Family 4: ordering switches and the fields' ranks.
DeclsOrd(decl) ==
    \E k \in 1..MaxFields :
        \E m \in OrdModes, c \in [1..k -> OrdChoices],
           q \in [1..k -> {<<>>, <<MInt("seq", -1)>>}] :
            decl = Declaration(StructCmp(m),
                               [n \in 1..k |-> FieldAttrs(<<c[n], q[n]>>)],
                               [n \in 1..k |-> NoneExpr])

\* Structure-level `ops(..)` declarations: none, every spelling of the
\* forms of add, several families, and repeated declarations of add.
OpsStructChoices ==
    {<<>>,
     <<MList("ops", <<MPath("add")>>)>>,
     <<MList("ops", <<MStr("add", "both")>>)>>,
     <<MList("ops", <<MStr("add", "all")>>)>>,
     <<MList("ops", <<MStr("add", "assign")>>)>>,
     <<MList("ops", <<MStr("add", "plain")>>)>>,
     <<MList("ops", <<MStr("add", "default")>>)>>,
     <<MList("ops", <<MBool("add", TRUE)>>)>>,
     <<MList("ops", <<MBool("add", FALSE)>>)>>,
     <<MList("ops", <<MStr("add", "inplace")>>)>>,
     <<MList("ops", <<MPath("sub"), MStr("mul", "both")>>)>>,
     <<MList("ops", <<MStr("sub", "assign"), MStr("div", "all")>>)>>,
     <<MList("ops", <<MPath("add")>>), MList("ops", <<MBool("add", FALSE)>>)>>,
     <<MList("ops", <<MPath("add"), MBool("add", FALSE)>>)>>,
     <<MList("ops", <<MStr("add", "both")>>), MList("ops", <<MStr("add", "assign")>>)>>}

\* Field-level `ops(..)` groups.
OpsChoices ==
    {<<>>,
     <<MList("ops", <<MStr("add", "ignore"), MStr("sub_assign", "no")>>)>>,
     <<MList("ops", <<MStr("add_assign", "ignore"), MBool("sub", FALSE),
                      MStr("add", "inherit"), MBool("mul_assign", TRUE)>>)>>,
     <<MList("ops", <<MStr("add", "std::cmp::min($self.a, $rhs.a)"),
                      MStr("add_assign", "$rhs.a"),
                      MStr("mul", "ignore"), MStr("div_assign", "ignore")>>)>>,
     <<MList("ops", <<MStr("add_assign", "std::cmp::max($self.a, $rhs.a)"),
                      MStr("add", "$rhs.a"),
                      MStr("mul_assign", "ignore"), MStr("div", "ignore")>>)>>,
     <<MList("ops", <<MStr("add", "$self.a +"), MStr("add_assign", "$self.a +")>>)>>,
     <<MList("ops", <<MStr("add_assign", "ignore")>>)>>,
     <<MList("ops", <<MStr("add", "ignore"), MStr("add_assign", "ignore"),
                      MStr("sub", "ignore"), MStr("sub_assign", "ignore")>>)>>}

\* Family 5: operator families and the fields' operator policies.  The
\* structure may have no field; with several fields it declares one of a
\* few families, and the fields after the second carry no option.
DeclsOps(decl) ==
    LET several == {<<MList("ops", <<MStr("add", "both")>>)>>,
                    <<MList("ops", <<MPath("sub"), MStr("mul", "both")>>)>>,
                    <<MList("ops", <<MStr("sub", "assign"), MStr("div", "all")>>)>>}
    IN  \E k \in 0..MaxFields :
            \E m \in (IF k > 1 THEN several ELSE OpsStructChoices),
               c \in [1..k -> OpsChoices] :
                /\ \A n \in 3..k : c[n] = <<>>
                /\ decl = Declaration(<<Attr("dstruct", m)>>,
                                      [n \in 1..k |-> FieldAttrs(<<c[n]>>)],
                                      [n \in 1..k |-> NoneExpr])

\* The values that the declarations of family 6 give one field option.
RepeatValues(key) ==
    CASE key = "default" -> {MStr("default", "1"), MStr("default", "b + 1")}
      [] key = "seq" -> {MInt("seq", -1), MInt("sequence", 1)}
      [] key = "get" -> {MPath("get"), MStr("get", "move"), MStr("get", "no")}
      [] key = "set" -> {MPath("set"), MStr("set", "with"), MStr("set", "no")}
      [] key = "cmp" -> {MList("cmp", <<MBool("eq", FALSE)>>),
                         MList("cmp", <<MBool("eq", TRUE)>>),
                         MList("cmp", <<MPath("ord")>>),
                         MList("cmp", <<MInt("ord", 1)>>)}
      [] key = "ops" -> {MList("ops", <<MStr("add", "ignore")>>),
                         MList("ops", <<MStr("sub", "$rhs.a")>>)}
      [] OTHER -> {MPath(key), MBool(key, FALSE)}

\* Family 6: one field on which an option is given 1..MaxRepeat times, in
\* one `dfield` group or split over two, after an optional other option.
DeclsRepeat(decl) ==
    \E key \in {"default", "seq", "get", "set", "do_with", "map", "no_debug", "cmp", "ops"},
       len \in 1..MaxRepeat :
        \E occ \in [1..len -> RepeatValues(key)], split \in 0..len,
           other \in {<<>>} \cup {<<o>> : o \in RepeatValues("no_debug")
                                                 \cup RepeatValues("cmp")} :
            decl = Declaration(<<>>,
                               <<FieldAttrs(<<other \o SubSeq(occ, 1, split),
                                              SubSeq(occ, split + 1, len)>>)>>,
                               <<NoneExpr>>)

\* Structure-level and field-level `get` / `set` options.
AccessStructChoices ==
    {<<>>, <<MPath("get")>>, <<MPath("set")>>, <<MPath("get"), MPath("set")>>,
     <<MStr("get", "move")>>, <<MStr("get", "full"), MStr("set", "with")>>,
     <<MStr("set", "set")>>, <<MStr("get", "no"), MStr("set", "all")>>,
     <<MStr("get", "ref")>>}

AccessChoices ==
    {<<>>, <<MPath("get")>>, <<MPath("set")>>,
     <<MStr("get", "move")>>, <<MStr("get", "get"), MStr("set", "set")>>,
     <<MStr("get", "all")>>, <<MStr("get", "no"), MStr("set", "no")>>,
     <<MStr("set", "with")>>, <<MStr("set", "full")>>, <<MStr("set", "both")>>}

\* Family 7: getter and setter modes of the structure and of its fields.
DeclsAccess(decl) ==
    LET several == {<<MPath("get"), MPath("set")>>, <<MStr("get", "move")>>}
    IN  \E k \in 1..MaxFields :
            \E m \in (IF k > 1 THEN several ELSE AccessStructChoices),
               c \in [1..k -> AccessChoices] :
                decl = Declaration(<<Attr("dstruct", m)>>,
                                   [n \in 1..k |-> FieldAttrs(<<c[n]>>)],
                                   [n \in 1..k |-> NoneExpr])

\* Family 8: declarations with invalid or unknown options: in the lists of
\* the structure, in one field or in several, and in the synthesis of the
\* comparison and of the operator members (an ordering without a ranked
\* field, a template that is no expression).  The fields after the second
\* carry no option.
DeclsInvalid(decl) ==
    LET structs ==
            {<<>>,
             <<MList("cmp", <<MPath("ord")>>), MList("ops", <<MStr("add", "assign")>>)>>,
             <<MList("ops", <<MStr("add", "inplace"), MPath("mul"), MStr("sub", "bogus"),
                              MStr("mul", "both")>>)>>,
             <<MList("cmp", <<MPath("bogus"), MPath("eq"), MPath("nope")>>)>>,
             <<MPath("unknown"), MPath("default")>>}
        fields ==
            {<<>>,
             <<MStr("seq", "x")>>,
             <<MStr("seq", "x"), MStr("get", "bad")>>,
             <<MStr("get", "bad")>>,
             <<MList("ops", <<MStr("add_assign", "$self.a +")>>)>>,
             <<MPath("unknown"), MStr("default", "1")>>,
             <<MList("ops", <<MInt("add", 1), MPath("plus"), MPath("sub")>>)>>}
    IN  \E k \in 1..MaxFields :
            \E m \in structs, c \in [1..k -> fields] :
                /\ \A n \in 3..k : c[n] = <<>>
                /\ decl = Declaration(<<Attr("dstruct", m)>>,
                                      [n \in 1..k |-> FieldAttrs(<<c[n]>>)],
                                      [n \in 1..k |-> NoneExpr])

\* Family 9: manual Debug of the structure and the fields' `no_debug`.
DeclsDebug(decl) ==
    LET structs == {<<>>, <<MPath("debug")>>, <<MBool("debug", FALSE)>>,
                    <<MBool("debug", TRUE)>>}
        fields == {<<>>, <<MPath("no_debug")>>, <<MBool("no_debug", FALSE)>>,
                   <<MBool("no_debug", TRUE), MInt("seq", -1)>>, <<MInt("seq", -1)>>}
    IN  \E k \in 1..MaxFields :
            \E m \in structs, c \in [1..k -> fields] :
                decl = Declaration(<<Attr("dstruct", m)>>,
                                   [n \in 1..k |-> FieldAttrs(<<c[n]>>)],
                                   [n \in 1..k |-> NoneExpr])

Declarations(decl) ==
    \/ DeclsDefault(decl) \/ DeclsStruct(decl) \/ DeclsEq(decl) \/ DeclsOrd(decl)
    \/ DeclsOps(decl) \/ DeclsRepeat(decl) \/ DeclsAccess(decl)
    \/ DeclsInvalid(decl) \/ DeclsDebug(decl)

-----------------------------------------------------------------------------
(* The macro invocation (datastruct_derive/src/lib.rs): from_syntax, then  *)
(* to_impl; an error of either becomes the compile error that is emitted.  *)

NoContent == [config |-> StructConfig_init, fields |-> <<>>]

Init ==
    /\ Declarations(syntax)
    /\ pc = "parsed"
    /\ content = NoContent
    /\ output = NoOutput
    /\ error = NoErr

FromSyntax ==
    /\ pc = "parsed"
    /\ \E r \in {RichStructContent_from_syntax(syntax)} :
           /\ pc' = IF r.ok THEN "content" ELSE "syntax_error"
           /\ content' = IF r.ok THEN [config |-> r.config, fields |-> r.fields]
                         ELSE NoContent
           /\ error' = r.err
    /\ UNCHANGED <<syntax, output>>

ToImpl ==
    /\ pc = "content"
    /\ \E r \in {to_impl(content)} :
           /\ pc' = IF r.ok THEN "done" ELSE "impl_error"
           /\ output' = r.ts
           /\ error' = r.err
    /\ UNCHANGED <<syntax, content>>

Next == FromSyntax \/ ToImpl

Spec == Init /\ [][Next]_vars

-----------------------------------------------------------------------------
(* What a declaration asks for, read off the declaration itself.           *)

\* The 1-based declaration index of the field named ident.
DeclIndex(ident) == CHOOSE n \in 1..Len(syntax.fields) : syntax.fields[n].ident = ident

\* The explicit `seq`/`sequence` value of a declared field: its last one.
DeclaredSeq(field) ==
    LET ms == SelectSeq(FieldMetas(field.attrs), LAMBDA m : m.key \in {"seq", "sequence"})
    IN  IF ms = <<>> THEN NoneInt ELSE Some(ms[Len(ms)].i)

\* The effective sequence key of the field named ident.
EffectiveKey(ident) ==
    LET d == DeclaredSeq(syntax.fields[DeclIndex(ident)])
    IN  IF d.some THEN d.v ELSE DeclIndex(ident) - 1

Resolved == pc \in {"content", "done", "impl_error"}

-----------------------------------------------------------------------------
\* C1: from_syntax orders the fields by a stable sort on the effective
\* sequence key (explicit seq/sequence value, else declaration index): the
\* resolved fields are the declared ones, a field with a smaller key comes
\* first, and fields with equal keys keep their declaration order.
InvC1 ==
    Resolved =>
        /\ Len(content.fields) = Len(syntax.fields)
        /\ {content.fields[n].ident : n \in 1..Len(content.fields)}
               = {syntax.fields[n].ident : n \in 1..Len(syntax.fields)}
        /\ \A i, j \in 1..Len(content.fields) :
               i < j =>
                   LET fi == content.fields[i].ident
                       fj == content.fields[j].ident
                   IN  \/ EffectiveKey(fi) < EffectiveKey(fj)
                       \/ /\ EffectiveKey(fi) = EffectiveKey(fj)
                          /\ DeclIndex(fi) < DeclIndex(fj)

\* A resolved structure in which an explicit seq moved a field in front of
\* one declared before it.
WitC1 ==
    /\ pc = "content"
    /\ \E i, j \in 1..Len(content.fields) :
           /\ i < j
           /\ DeclIndex(content.fields[i].ident) > DeclIndex(content.fields[j].ident)
           /\ content.fields[i].config.init_seq.some

\* A resolved structure in which two fields have the same effective key.
WitC1Tie ==
    /\ pc = "content"
    /\ \E i, j \in 1..Len(content.fields) :
           /\ i < j
           /\ EffectiveKey(content.fields[i].ident) = EffectiveKey(content.fields[j].ident)

-----------------------------------------------------------------------------
\* The names bound where statement n of a constructor body is evaluated.
ScopeAt(body, n) == Range(body.params) \cup {body.stmts[j].name : j \in 1..(n - 1)}

\* The full default constructors that were emitted.
FullDefaults ==
    {c \in {output.default, output.const_default, output.std_default} : c.present}

\* Some resolved field sorts in front of a field declared before it.
Reordered ==
    \E i, j \in 1..Len(content.fields) :
        i < j /\ DeclIndex(content.fields[i].ident) > DeclIndex(content.fields[j].ident)

\* C2: every emitted full default constructor holds exactly one let-binding
\* per field, in resolved field order, each with the field's default
\* expression; the bindings in scope at a field's expression are exactly
\* those of the fields that sort strictly earlier, so the body compiles
\* exactly when every referenced field sorts earlier.
InvC2 ==
    pc = "done" =>
        \A c \in FullDefaults :
            /\ c.body.params = <<>>
            /\ Len(c.body.stmts) = Len(content.fields)
            /\ c.body.idents = Idents(content.fields)
            /\ \A n \in 1..Len(content.fields) :
                   /\ c.body.stmts[n].name = content.fields[n].ident
                   /\ c.body.stmts[n].expr = content.fields[n].config.default_value.v
                   /\ ScopeAt(c.body, n) = {content.fields[j].ident : j \in 1..(n - 1)}
            /\ EvalConstruct(c.body, <<>>).ok
                   <=> \A n \in 1..Len(content.fields) :
                           \/ content.fields[n].config.default_value.v.kind = "lit"
                           \/ \E j \in 1..(n - 1) :
                                  content.fields[j].ident
                                      = content.fields[n].config.default_value.v.ref

\* A runtime default whose fields were reordered by seq and in which a
\* default expression uses the binding of a field that sorts earlier.
WitC2 ==
    /\ pc = "done"
    /\ output.default.present
    /\ Reordered
    /\ \E n \in 1..Len(output.default.body.stmts) :
           output.default.body.stmts[n].expr.kind = "ref_plus"
    /\ EvalConstruct(output.default.body, <<>>).ok

AllHaveDefault ==
    \A n \in 1..Len(content.fields) : content.fields[n].config.default_value.some

\* C3: when the runtime, const and standard default are all requested and
\* every field has a default expression, all three are emitted with the
\* same binding sequence and construct the same field values.
InvC3 ==
    (/\ pc = "done"
     /\ AllHaveDefault
     /\ content.config.generate_default
     /\ content.config.const_default
     /\ content.config.impl_std_default) =>
        /\ output.default.present
        /\ output.const_default.present
        /\ output.std_default.present
        /\ output.default.body = output.const_default.body
        /\ output.default.body = output.std_default.body
        /\ EvalConstruct(output.default.body, <<>>)
               = EvalConstruct(output.const_default.body, <<>>)
        /\ EvalConstruct(output.default.body, <<>>)
               = EvalConstruct(output.std_default.body, <<>>)

\* The three full defaults emitted for a structure of at least two fields
\* whose default expressions depend on one another and evaluate.
WitC3 ==
    /\ pc = "done"
    /\ output.default.present /\ output.const_default.present /\ output.std_default.present
    /\ Len(content.fields) >= 2
    /\ \E n \in 1..Len(output.std_default.body.stmts) :
           output.std_default.body.stmts[n].expr.kind = "ref_plus"
    /\ EvalConstruct(output.std_default.body, <<>>).ok

-----------------------------------------------------------------------------
\* The structure-level option `key` as the declaration requests it: its last
\* occurrence is the bare name or `key = true`.
StructOptionRequested(key) ==
    LET ms == Concat([n \in 1..Len(syntax.attrs) |-> syntax.attrs[n].nested])
        occ == {n \in 1..Len(ms) : ms[n].key = key}
    IN  /\ occ # {}
        /\ LET last == ms[CHOOSE n \in occ : \A m \in occ : m <= n]
           IN  \/ last.shape = "path"
               \/ last.shape = "bool" /\ last.b

FullModeRequested ==
    \E key \in {"default", "const", "std_default"} : StructOptionRequested(key)

\* C4: resolution fails whenever `partial` is requested together with any
\* of the full default modes `default`, `const`, `std_default`; no
\* configuration is returned then.
CexC4 ==
    (StructOptionRequested("partial") /\ FullModeRequested) =>
        pc \in {"parsed", "syntax_error"}

\* C5 as stated: a full default mode together with a field without default
\* expression never ends in generated members.
CexC5 ==
    (/\ \/ content.config.generate_default
        \/ content.config.const_default
        \/ content.config.impl_std_default
     /\ ~AllHaveDefault) =>
        pc # "done"

\* C5: a full default mode on a structure with a field that has no default
\* expression is no error: each full default constructor is emitted exactly
\* when its mode is set and every field has a default expression, and the
\* other members are generated all the same.
InvC5 ==
    /\ pc = "done" =>
           /\ output.default.present
                  <=> (content.config.generate_default /\ AllHaveDefault)
           /\ output.const_default.present
                  <=> (content.config.const_default /\ AllHaveDefault)
           /\ output.std_default.present
                  <=> (content.config.impl_std_default /\ AllHaveDefault)
           /\ output.impl_ = generate_impl(content)
    /\ (/\ pc \in {"done", "impl_error"}
        /\ ~content.config.cmp.ord
        /\ ~content.config.cmp.partial_ord
        /\ content.config.ops = StructOpsConfig_default) =>
           pc = "done" /\ error = NoErr

\* The runtime default and the Debug impl requested on a structure with a
\* field without default expression: the Debug impl is generated, and no
\* default constructor.
WitC5 ==
    /\ pc = "done"
    /\ StructOptionRequested("default")
    /\ content.config.generate_default
    /\ ~AllHaveDefault
    /\ FullDefaults = {}
    /\ output.debug_impl.present

\* The fields of the resolved structure with (want = TRUE) or without a
\* default expression, in resolved order.
FieldsByDefault(want) ==
    SelectSeq(content.fields, LAMBDA f : f.config.default_value.some = want)

\* C6: the partial-default constructor takes exactly the fields without
\* default expression as parameters, binds every field with a default
\* expression to it whatever the arguments, and builds a value with every
\* field of the structure.
InvC6 ==
    pc = "done" =>
        /\ output.impl_.p_default.present <=> content.config.partial_default
        /\ output.impl_.p_default.present =>
               LET body == output.impl_.p_default.body
                   with == FieldsByDefault(TRUE)
               IN  /\ body.params = Idents(FieldsByDefault(FALSE))
                   /\ Len(body.stmts) = Len(with)
                   /\ \A n \in 1..Len(with) :
                          /\ body.stmts[n].name = with[n].ident
                          /\ body.stmts[n].expr = with[n].config.default_value.v
                   /\ body.idents = Idents(content.fields)
                   /\ \A args \in [Range(body.params) -> 0..MaxVal] :
                          LET r == EvalConstruct(body, args)
                          IN  r.ok =>
                                  /\ DOMAIN r.value = Range(Idents(content.fields))
                                  /\ \A f \in Range(body.params) : r.value[f] = args[f]
                                  /\ \A n \in 1..Len(with) :
                                         with[n].config.default_value.v.kind = "lit" =>
                                             r.value[with[n].ident]
                                                 = with[n].config.default_value.v.n

\* A partial default with a parameter and a defaulted field, which builds.
WitC6 ==
    /\ pc = "done"
    /\ output.impl_.p_default.present
    /\ output.impl_.p_default.body.params # <<>>
    /\ output.impl_.p_default.body.stmts # <<>>
    /\ \A args \in [Range(output.impl_.p_default.body.params) -> 0..MaxVal] :
           EvalConstruct(output.impl_.p_default.body, args).ok

-----------------------------------------------------------------------------
\* The resolved fields that take part in equality.
EqParticipants ==
    {content.fields[n].ident : n \in {m \in 1..Len(content.fields) :
                                          content.fields[m].config.cmp.eq}}

AllInstances == Instances(Idents(content.fields))

\* C7: the generated partial equality is the conjunction of the field
\* equalities over exactly the fields whose equality participation is true.
CexC7 ==
    (pc = "done" /\ content.config.cmp.partial_eq) =>
        /\ output.cmp_impl.partial_eq.present
        /\ \A x, y \in AllInstances :
               LET r == EvalPartialEq(output.cmp_impl.partial_eq.equations, x, y)
               IN  /\ r.ok
                   /\ r.v <=> \A f \in EqParticipants : x[f] = y[f]

\* C8: with partial equality requested and no field taking part in it,
\* generation succeeds and the generated equality is true for every pair.
CexC8 ==
    (/\ pc \in {"done", "impl_error"}
     /\ content.config.cmp.partial_eq
     /\ EqParticipants = {}) =>
        /\ pc = "done"
        /\ output.cmp_impl.partial_eq.present
        /\ \A x, y \in AllInstances :
               EvalPartialEq(output.cmp_impl.partial_eq.equations, x, y)
                   = [ok |-> TRUE, v |-> TRUE]

-----------------------------------------------------------------------------
\* The positions of the resolved fields that carry a rank under `key`.
Ranked(key) == {n \in 1..Len(content.fields) : content.fields[n].config.cmp[key].some}

\* The comparison the ranked fields decide: that of the differing ranked
\* field that is least by (rank, resolved position), Equal if none differs.
ExpectedOrd(x, y) ==
    LET f(n) == content.fields[n].ident
        rank(n) == content.fields[n].config.cmp.ord.v
        D == {n \in Ranked("ord") : x[f(n)] # y[f(n)]}
    IN  IF D = {}
        THEN "Equal"
        ELSE LET n == CHOOSE n \in D :
                          \A m \in D : \/ rank(n) < rank(m)
                                       \/ rank(n) = rank(m) /\ n <= m
             IN  IF x[f(n)] < y[f(n)] THEN "Less" ELSE "Greater"

\* C9: the generated total order compares exactly the ranked fields in
\* ascending rank order, equal ranks in resolved field order, and returns
\* the first non-equal comparison, Equal if there is none; fields without
\* rank never influence the result.
InvC9 ==
    (pc = "done" /\ content.config.cmp.ord) =>
        /\ output.cmp_impl.ord.present
        /\ Range(output.cmp_impl.ord.cmp_seq)
               = {content.fields[n].ident : n \in Ranked("ord")}
        /\ \A x, y \in AllInstances :
               EvalOrd(output.cmp_impl.ord.cmp_seq, x, y) = ExpectedOrd(x, y)

\* A total order over two ranked fields of which the one that comes later
\* in the structure has the smaller rank.
WitC9 ==
    /\ pc = "done"
    /\ output.cmp_impl.ord.present
    /\ Len(content.fields) = 2
    /\ output.cmp_impl.ord.cmp_seq = <<content.fields[2].ident, content.fields[1].ident>>

\* C10: `ord` without any field ranked for it fails, and so does `pord`
\* without any field ranked for it unless the ord-only shortcut applies;
\* nothing is emitted in either case.
InvC10 ==
    (/\ pc \in {"done", "impl_error"}
     /\ \/ content.config.cmp.ord /\ Ranked("ord") = {}
        \/ /\ content.config.cmp.partial_ord
           /\ ~content.config.cmp.ord
           /\ Ranked("partial_ord") = {}) =>
        /\ pc = "impl_error"
        /\ error # NoErr
        /\ output = NoOutput

\* `ord` requested on a structure whose only ranks are partial-ordering
\* ranks: generation has failed.
WitC10 ==
    /\ pc = "impl_error"
    /\ content.config.cmp.ord
    /\ Ranked("ord") = {}
    /\ Ranked("partial_ord") # {}

\* `pord` alone requested on a structure without partial-ordering rank.
WitC10Partial ==
    /\ pc = "impl_error"
    /\ content.config.cmp.partial_ord
    /\ ~content.config.cmp.ord
    /\ Ranked("partial_ord") = {}

-----------------------------------------------------------------------------
\* C11: with `ord` and `pord` both requested and no field ranked for the
\* partial order, no independent chain is generated and the partial order of
\* every pair of instances is Some of their total order; with a field
\* ranked for the partial order the independent chain over the ranked
\* fields is generated instead.
InvC11 ==
    (/\ pc \in {"done", "impl_error"}
     /\ content.config.cmp.ord
     /\ content.config.cmp.partial_ord
     /\ Ranked("ord") # {}) =>
        /\ pc = "done"
        /\ output.cmp_impl.partial_ord.present
        /\ IF Ranked("partial_ord") = {}
           THEN /\ output.cmp_impl.partial_ord.kind = "some_cmp"
                /\ output.cmp_impl.partial_ord.cmp_seq = <<>>
                /\ \A x, y \in AllInstances :
                       /\ EvalPartialOrd(output.cmp_impl.partial_ord,
                                         output.cmp_impl.ord, x, y)
                              = SomeOrdering(EvalOrd(output.cmp_impl.ord.cmp_seq, x, y))
                       /\ EvalPartialOrd(output.cmp_impl.partial_ord,
                                         output.cmp_impl.ord, x, y)
                              = SomeOrdering(ExpectedOrd(x, y))
           ELSE /\ output.cmp_impl.partial_ord.kind = "chain"
                /\ Range(output.cmp_impl.partial_ord.cmp_seq)
                       = {content.fields[n].ident : n \in Ranked("partial_ord")}

\* `ord` and `pord` on a structure of two fields ranked for the total order
\* only: PartialOrd is `Some(self.cmp(rhs))`.
WitC11 ==
    /\ pc = "done"
    /\ content.config.cmp.ord
    /\ content.config.cmp.partial_ord
    /\ Ranked("partial_ord") = {}
    /\ Cardinality(Ranked("ord")) = 2
    /\ output.cmp_impl.partial_ord.kind = "some_cmp"

\* `ord` and `pord` with a field ranked for the partial order: the chain.
WitC11Chain ==
    /\ pc = "done"
    /\ content.config.cmp.ord
    /\ content.config.cmp.partial_ord
    /\ Ranked("partial_ord") # {}
    /\ output.cmp_impl.partial_ord.kind = "chain"

-----------------------------------------------------------------------------
\* The resolved policy of the n-th field for the operator entry k.
OpsPolicy(n, k) == content.fields[n].config.ops[k].kind

\* C12: a generated plain operator (add/sub/mul/div) builds a result that
\* names every field of the structure exactly once; a field whose policy
\* for the operator is Ignore takes the left operand's value, and a field
\* whose policy is Inherit or unset takes `left.field <op> right.field`.
InvC12 ==
    pc = "done" =>
        \A k \in Range(OpsFamilies) :
            output.ops_impl[k].present =>
                /\ Len(output.ops_impl[k].fields) = Len(content.fields)
                /\ \A n \in 1..Len(content.fields) :
                       Cardinality({i \in 1..Len(output.ops_impl[k].fields) :
                                      output.ops_impl[k].fields[i].ident
                                          = content.fields[n].ident}) = 1
                /\ \A x, y \in AllInstances :
                       \E r \in {EvalOps(output.ops_impl[k].fields, x, y)} :
                           /\ r.compiles
                           /\ \A n \in 1..Len(content.fields) :
                                  LET f == content.fields[n].ident
                                  IN  /\ OpsPolicy(n, k) = "Ignore" =>
                                             r.value[f] = Some(x[f])
                                      /\ OpsPolicy(n, k) \in {"Inherit", None} =>
                                             r.value[f] = BinOp(OpsSymbol(k), x[f], y[f])

\* A plain add is generated for two fields, one ignored and one unset.
WitC12 ==
    /\ pc = "done"
    /\ output.ops_impl["add"].present
    /\ Len(content.fields) = 2
    /\ OpsPolicy(1, "add") = "Ignore"
    /\ OpsPolicy(2, "add") = None
    /\ \E x, y \in AllInstances :
           /\ y[content.fields[1].ident] # 0
           /\ EvalOps(output.ops_impl["add"].fields, x, y).value
                  = [f \in DOMAIN x |->
                       IF f = content.fields[1].ident THEN Some(x[f])
                       ELSE Some(x[f] + y[f])]

-----------------------------------------------------------------------------
\* C13: a generated in-place operator has one statement per field, in field
\* order.  The statement of a field whose in-place policy is Ignore leaves
\* the left operand untouched, the statement of a field whose policy is
\* Inherit or unset performs `self.field <op>= rhs.field`, and no statement
\* (manual ones included) changes a field other than its own; so the whole
\* body leaves an ignored field at its old value and an inherited or unset
\* field at `old <op> rhs.field`.
InvC13 ==
    pc = "done" =>
        \A k \in OpsFieldKeys \ Range(OpsFamilies) :
            output.ops_impl[k].present =>
                /\ Idents(output.ops_impl[k].fields) = Idents(content.fields)
                /\ \A x, y \in AllInstances :
                       \E all \in {EvalOpsAssign(output.ops_impl[k].fields, x, y)} :
                           \A n \in 1..Len(content.fields) :
                               \E st \in {EvalOpsAssign(<<output.ops_impl[k].fields[n]>>, x, y)},
                                  v \in {BinOp(OpsSymbol(CHOOSE g \in Range(OpsFamilies) :
                                                             g \o "_assign" = k),
                                               x[content.fields[n].ident],
                                               y[content.fields[n].ident])} :
                                   LET f == content.fields[n].ident
                                   IN  /\ \A g \in DOMAIN x \ {f} : st.env[g] = x[g]
                                       /\ OpsPolicy(n, k) = "Ignore" =>
                                              /\ st.ok /\ st.env = x
                                              /\ all.ok => all.env[f] = x[f]
                                       /\ OpsPolicy(n, k) \in {"Inherit", None} =>
                                              /\ st.ok = v.some
                                              /\ v.some => st.env = [x EXCEPT ![f] = v.v]
                                              /\ all.ok => all.env[f] = v.v

\* An in-place add over an ignored and an unset field changes the unset
\* field only.
WitC13 ==
    /\ pc = "done"
    /\ output.ops_impl["add_assign"].present
    /\ Len(content.fields) = 2
    /\ OpsPolicy(1, "add_assign") = "Ignore"
    /\ OpsPolicy(2, "add_assign") = None
    /\ \E x, y \in AllInstances :
           /\ y[content.fields[1].ident] # 0
           /\ y[content.fields[2].ident] # 0
           /\ EvalOpsAssign(output.ops_impl["add_assign"].fields, x, y)
                  = [ok |-> TRUE,
                     env |-> [x EXCEPT ![content.fields[2].ident]
                                           = @ + y[content.fields[2].ident]]]

-----------------------------------------------------------------------------
\* The value of the template text s with `$self` read as the left operand
\* a and `$rhs` as the right operand b.
TemplateValue(s, a, b) ==
    EvalTemplate([Lex(s) EXCEPT !.args =
                      [n \in 1..Len(Lex(s).args) |->
                         Operand(IF Lex(s).args[n].base = "$self" THEN "self" ELSE "rhs",
                                 Lex(s).args[n].field)]], a, b)

\* C14: an ops value that is a string other than inherit/default/ignore/no
\* resolves to a Manual template with that text.  In a plain operator the
\* field's result is the template with `$self` as the left and `$rhs` as
\* the right operand; in an in-place operator the field's statement assigns
\* that value to the field (max($self.a, $rhs.a) on a = 0 and a = 1 leaves
\* a = 1).
InvC14 ==
    /\ Resolved =>
           \A i \in 1..Len(syntax.fields), n \in 1..Len(content.fields) :
               LET groups == SelectSeq(FieldMetas(syntax.fields[i].attrs),
                                       LAMBDA m : m.key = "ops" /\ m.shape = "list")
                   last == groups[Len(groups)].sub
               IN  (content.fields[n].ident = syntax.fields[i].ident /\ groups # <<>>) =>
                       \A j \in 1..Len(last) :
                           (/\ last[j].shape = "str"
                            /\ last[j].s \notin {"inherit", "default", "ignore", "no"}
                            /\ last[j].key \in OpsFieldKeys
                            /\ \A l \in (j + 1)..Len(last) : last[l].key # last[j].key)
                               => content.fields[n].config.ops[last[j].key]
                                      = OpsOp("Manual", last[j].s)
    /\ pc = "done" =>
           \A k \in OpsFieldKeys, n \in 1..Len(content.fields) :
               (/\ output.ops_impl[k].present
                /\ OpsPolicy(n, k) = "Manual"
                /\ Lex(content.fields[n].config.ops[k].tmpl).expr) =>
                   \A x, y \in AllInstances :
                       LET f == content.fields[n].ident
                           s == content.fields[n].config.ops[k].tmpl
                       IN  IF k \in Range(OpsFamilies)
                           THEN EvalOps(output.ops_impl[k].fields, x, y).value[f]
                                    = TemplateValue(s, x, y)
                           ELSE /\ TemplateValue(s, x, y).some
                                /\ EvalOpsAssign(<<output.ops_impl[k].fields[n]>>, x, y)
                                       = [ok |-> TRUE,
                                          env |-> [x EXCEPT ![f] = TemplateValue(s, x, y).v]]

\* The in-place add of a structure whose only field a carries
\* add_assign = "std::cmp::max($self.a, $rhs.a)" turns a = 0 into a = 1 for
\* the right operand a = 1.
WitC14 ==
    /\ pc = "done"
    /\ output.ops_impl["add_assign"].present
    /\ Len(content.fields) = 1
    /\ content.fields[1].config.ops["add_assign"]
           = OpsOp("Manual", "std::cmp::max($self.a, $rhs.a)")
    /\ EvalOpsAssign(output.ops_impl["add_assign"].fields, [f \in {"a"} |-> 0],
                     [f \in {"a"} |-> 1])
           = [ok |-> TRUE, env |-> [f \in {"a"} |-> 1]]

\* A plain add whose field carries add = "std::cmp::min($self.a, $rhs.a)".
WitC14Plain ==
    /\ pc = "done"
    /\ output.ops_impl["add"].present
    /\ \E n \in 1..Len(content.fields) :
           /\ content.fields[n].config.ops["add"]
                  = OpsOp("Manual", "std::cmp::min($self.a, $rhs.a)")
           /\ \E x, y \in AllInstances :
                  /\ x["a"] = 1 /\ y["a"] = 0
                  /\ EvalOps(output.ops_impl["add"].fields, x, y).value[content.fields[n].ident]
                         = Some(0)

-----------------------------------------------------------------------------
\* C15: an operator family that the structure requests and in which no
\* field participates (every field resolves to Ignore for the plain and for
\* the in-place entry of the family, or the structure has no field) gets
\* no implementation, plain or in-place, and the expansion still succeeds.
CexC15 ==
    \A f \in Range(OpsFamilies) :
        (/\ pc \in {"done", "impl_error"}
         /\ content.config.ops[f] # None
         /\ \A n \in 1..Len(content.fields) :
                /\ OpsPolicy(n, f) = "Ignore"
                /\ OpsPolicy(n, f \o "_assign") = "Ignore") =>
            /\ pc = "done"
            /\ ~output.ops_impl[f].present
            /\ ~output.ops_impl[f \o "_assign"].present

-----------------------------------------------------------------------------
\* The entries for the family f in the `ops(..)` lists of the structure.
DeclaredOps(f) ==
    SelectSeq(Concat([n \in 1..Len(StructMetas(syntax.attrs)) |->
                        IF /\ StructMetas(syntax.attrs)[n].key = "ops"
                           /\ StructMetas(syntax.attrs)[n].shape = "list"
                        THEN StructMetas(syntax.attrs)[n].sub ELSE <<>>]),
              LAMBDA m : m.key = f)

\* C16: for a family that the structure declares at most once, the forms
\* emitted follow from that declaration alone, whatever ops options the
\* fields carry: "both"/"all" gives the plain and the in-place form,
\* "assign" the in-place form only, "plain"/"default", a bare flag or
\* `= true` the plain form only, `= false` or no declaration neither.
InvC16 ==
    pc = "done" =>
        \A f \in Range(OpsFamilies) :
            LET d == DeclaredOps(f)
                plain == output.ops_impl[f].present
                inplace == output.ops_impl[f \o "_assign"].present
            IN  /\ d = <<>> => ~plain /\ ~inplace
                /\ Len(d) = 1 =>
                       CASE d[1].shape = "str" /\ d[1].s \in {"both", "all"} ->
                                plain /\ inplace
                         [] d[1].shape = "str" /\ d[1].s = "assign" -> ~plain /\ inplace
                         [] d[1].shape = "str" /\ d[1].s \in {"plain", "default"} ->
                                plain /\ ~inplace
                         [] d[1].shape = "path" -> plain /\ ~inplace
                         [] d[1].shape = "bool" /\ d[1].b -> plain /\ ~inplace
                         [] d[1].shape = "bool" /\ ~d[1].b -> ~plain /\ ~inplace
                         [] OTHER -> FALSE

\* `add = "assign"` on a structure whose field carries a plain add option:
\* only the in-place form is emitted.
WitC16 ==
    /\ pc = "done"
    /\ Len(DeclaredOps("add")) = 1
    /\ DeclaredOps("add")[1].s = "assign"
    /\ \E n \in 1..Len(content.fields) : OpsPolicy(n, "add") = "Ignore"
    /\ output.ops_impl["add_assign"].present
    /\ ~output.ops_impl["add"].present

\* No declaration for add while a field carries add options: nothing of
\* the add family is emitted.
WitC16None ==
    /\ pc = "done"
    /\ DeclaredOps("add") = <<>>
    /\ \E n \in 1..Len(content.fields) : OpsPolicy(n, "add") = "Manual"
    /\ ~output.ops_impl["add"].present
    /\ ~output.ops_impl["add_assign"].present

-----------------------------------------------------------------------------
\* The entries of a field with every entry dropped that a later entry of
\* the same option follows; `sequence` is the option `seq`.
LastOccurrences(metas) ==
    LET OptionOf(m) == IF m.key = "sequence" THEN "seq" ELSE m.key
    IN  SelectSeq([j \in 1..Len(metas) |->
                     [m |-> metas[j],
                      last |-> \A l \in (j + 1)..Len(metas) :
                                   OptionOf(metas[l]) # OptionOf(metas[j])]],
                  LAMBDA e : e.last)

\* C17: when options of a field are repeated, in one `dfield` group or in
\* several, the resolved policy has for every option (default, seq, get,
\* set, do_with, map, no_debug, cmp, ops) the value of its last occurrence
\* and the other options keep theirs: the policy equals the one resolved
\* from a single group holding only the last occurrence of each option.
InvC17 ==
    Resolved =>
        \A i \in 1..Len(syntax.fields), n \in 1..Len(content.fields) :
            content.fields[n].ident = syntax.fields[i].ident =>
                LET last == LastOccurrences(FieldMetas(syntax.fields[i].attrs))
                    once == StructFieldContent_from_syntax(
                                StructField(syntax.fields[i].ident,
                                            <<Attr("dfield", [j \in 1..Len(last) |-> last[j].m])>>,
                                            syntax.fields[i].default_value),
                                content.config.override_auto_set,
                                content.config.override_auto_get)
                IN  /\ once.ok
                    /\ content.fields[n].config = once.content.config

\* `#[dfield(no_debug, cmp(eq = false))] #[dfield(cmp(eq = true))]`
\* resolves to no_debug with equality participation, as
\* `#[dfield(no_debug, cmp(eq = true))]` does.
WitC17 ==
    /\ Resolved
    /\ Len(syntax.fields) = 1
    /\ syntax.fields[1].attrs
           = <<Attr("dfield", <<MPath("no_debug"), MList("cmp", <<MBool("eq", FALSE)>>)>>),
               Attr("dfield", <<MList("cmp", <<MBool("eq", TRUE)>>)>>)>>
    /\ content.fields[1].config.no_debug
    /\ content.fields[1].config.cmp.eq
    /\ content.fields[1].config
           = FieldConfig_from_attribute(
                 <<Attr("dfield", <<MPath("no_debug"), MList("cmp", <<MBool("eq", TRUE)>>)>>)>>,
                 content.config.override_auto_set, content.config.override_auto_get).config

-----------------------------------------------------------------------------
\* C18: structure-level options are last-wins; in particular the resolved
\* entry of every ops family is the value of the positionally last
\* declaration of that family (a bare flag, `= true` and "plain"/"default"
\* give Plain, "both"/"all" Both, "assign" Assign and `= false` disables),
\* so `ops(add)` followed by `ops(add = false)` leaves add disabled.
CexC18 ==
    Resolved =>
        \A f \in Range(OpsFamilies) :
            LET d == DeclaredOps(f)
                last == d[Len(d)]
            IN  d # <<>> =>
                    content.config.ops[f]
                        = CASE last.shape = "str" -> OpsAssignableType_from_str(last.s)
                            [] last.shape = "bool" /\ ~last.b -> None
                            [] OTHER -> OpsAssignableType_default

-----------------------------------------------------------------------------
\* The last `get` (or `set`) entry of the declared field i, if any.
DeclaredAccess(i, key) ==
    SelectSeq(FieldMetas(syntax.fields[i].attrs), LAMBDA m : m.key = key)

\* C19: a field whose `get` (`set`) option is the bare flag resolves to the
\* getter (setter) mode of the structure, whatever that mode is.
CexC19 ==
    Resolved =>
        \A i \in 1..Len(syntax.fields), n \in 1..Len(content.fields) :
            content.fields[n].ident = syntax.fields[i].ident =>
                LET g == DeclaredAccess(i, "get")
                    s == DeclaredAccess(i, "set")
                IN  /\ (g # <<>> /\ g[Len(g)].shape = "path") =>
                           content.fields[n].config.auto_get
                               = content.config.override_auto_get
                    /\ (s # <<>> /\ s[Len(s)].shape = "path") =>
                           content.fields[n].config.auto_set
                               = content.config.override_auto_set

-----------------------------------------------------------------------------
\* The mode that a `get = ".."` / `set = ".."` string names.
NamedMode(key, s) ==
    CASE s \in {"full", "all"} -> "Full"
      [] s = "no" -> "No"
      [] key = "get" /\ s = "get" -> "Get"
      [] key = "get" /\ s = "move" -> "Move"
      [] key = "set" /\ s = "set" -> "Set"
      [] key = "set" /\ s = "with" -> "With"
      [] OTHER -> None

\* The accessor methods of a mode: `x()` is "get", `get_x()` is "move",
\* `set_x()` is "set" and `with_x()` is "with".
ModeMembers(mode) ==
    CASE mode = "Full" -> {"get", "move", "set", "with"}
      [] mode = "Get" -> {"get"}
      [] mode = "Move" -> {"move"}
      [] mode = "Set" -> {"set"}
      [] mode = "With" -> {"with"}
      [] OTHER -> {}

\* C20: a field without a `get` (`set`) option resolves to the getter
\* (setter) mode of the structure and a field whose last such option is
\* `get = "mode"` (`set = "mode"`) to that mode; the structure's mode is No
\* when it declares nothing, Get for a bare `get` and Full for a bare
\* `set`; and the methods generated for a field are, per mode, Full: both,
\* Get/Set: the reference getter / `set_x` only, Move/With: the moving
\* getter / `with_x` only, No: none.
InvC20 ==
    /\ Resolved =>
           /\ \A key \in {"get", "set"} :
                  LET d == SelectSeq(StructMetas(syntax.attrs), LAMBDA m : m.key = key)
                      mode == IF key = "get" THEN content.config.override_auto_get
                              ELSE content.config.override_auto_set
                  IN  /\ d = <<>> => mode = "No"
                      /\ (d # <<>> /\ d[Len(d)].shape = "path") =>
                             mode = (IF key = "get" THEN "Get" ELSE "Full")
           /\ \A i \in 1..Len(syntax.fields), n \in 1..Len(content.fields) :
                  content.fields[n].ident = syntax.fields[i].ident =>
                      \A key \in {"get", "set"} :
                          LET d == DeclaredAccess(i, key)
                              own == IF key = "get" THEN content.fields[n].config.auto_get
                                     ELSE content.fields[n].config.auto_set
                              struct == IF key = "get" THEN content.config.override_auto_get
                                        ELSE content.config.override_auto_set
                          IN  /\ d = <<>> => own = struct
                              /\ (d # <<>> /\ d[Len(d)].shape = "str") =>
                                     own = NamedMode(key, d[Len(d)].s)
    /\ pc = "done" =>
           \A n \in 1..Len(content.fields) :
               LET f == content.fields[n].ident
                   fns == SelectSeq(output.impl_.fns,
                                    LAMBDA m : /\ m.field = f
                                               /\ m.kind \in {"get", "move", "set", "with"})
               IN  /\ {fns[j].kind : j \in 1..Len(fns)}
                          = (ModeMembers(content.fields[n].config.auto_get)
                                 \cap {"get", "move"})
                            \cup (ModeMembers(content.fields[n].config.auto_set)
                                      \cap {"set", "with"})
                   /\ \A j, l \in 1..Len(fns) : fns[j].kind = fns[l].kind => j = l

\* `#[dstruct(get, set)]` with a field without options and a field with
\* `get = "move"`: the first has x(), set_x() and with_x(), the second
\* get_x() instead of x().
WitC20 ==
    /\ pc = "done"
    /\ content.config.override_auto_get = "Get"
    /\ content.config.override_auto_set = "Full"
    /\ Len(content.fields) = 2
    /\ syntax.fields[1].attrs = <<>>
    /\ syntax.fields[2].attrs = <<Attr("dfield", <<MStr("get", "move")>>)>>
    /\ output.impl_.fns
           = <<[kind |-> "get", field |-> "a"], [kind |-> "set", field |-> "a"],
               [kind |-> "with", field |-> "a"], [kind |-> "move", field |-> "b"],
               [kind |-> "set", field |-> "b"], [kind |-> "with", field |-> "b"]>>

-----------------------------------------------------------------------------
\* C21: the resolved default expression of a field is its (last) explicit
\* `default = ".."` option whenever it has one, its inline `= expr`
\* initialiser when it has no such option, and absent when it has neither.
InvC21 ==
    Resolved =>
        \A i \in 1..Len(syntax.fields), n \in 1..Len(content.fields) :
            content.fields[n].ident = syntax.fields[i].ident =>
                LET d == SelectSeq(FieldMetas(syntax.fields[i].attrs),
                                   LAMBDA m : m.key = "default")
                IN  content.fields[n].config.default_value
                        = IF d # <<>> THEN ParseExpr(d[Len(d)].s)
                          ELSE syntax.fields[i].default_value

\* A field declared with `default = "a + 1"` and the inline initialiser
\* `= 2` resolves to `a + 1`, and a field with the inline `= 2` alone to 2.
WitC21 ==
    /\ Resolved
    /\ \E i \in 1..Len(syntax.fields), n \in 1..Len(content.fields) :
           /\ content.fields[n].ident = syntax.fields[i].ident
           /\ syntax.fields[i].default_value = Some(ELit(2))
           /\ \E m \in Range(FieldMetas(syntax.fields[i].attrs)) :
                  m.key = "default" /\ m.s = "a + 1"
           /\ content.fields[n].config.default_value = Some(ERefPlus("a", 1))
    /\ \E i \in 1..Len(syntax.fields), n \in 1..Len(content.fields) :
           /\ content.fields[n].ident = syntax.fields[i].ident
           /\ syntax.fields[i].default_value = Some(ELit(2))
           /\ \A m \in Range(FieldMetas(syntax.fields[i].attrs)) : m.key # "default"
           /\ content.fields[n].config.default_value = Some(ELit(2))

-----------------------------------------------------------------------------
\* C22: the diagnostic that is surfaced holds every failure of the
\* declaration: every invalid option of every field (as many messages as
\* there are invalid options), and both the failure of the comparison
\* synthesis and that of the operator synthesis.
CexC22 ==
    /\ pc = "syntax_error" =>
           LET bad(i) == SelectSeq(FieldMetas(syntax.fields[i].attrs),
                                   LAMBDA m : FieldConfig_meta(
                                                  FieldConfig_init("No", "No"), m).err # NoErr)
               all == Concat([i \in 1..Len(syntax.fields) |-> bad(i)])
           IN  /\ Len(error) >= Len(all)
               /\ \A j \in 1..Len(all) :
                      Range(FieldConfig_meta(FieldConfig_init("No", "No"), all[j]).err)
                          \subseteq Range(error)
    /\ pc = "impl_error" =>
           /\ Range(impl_cmp(content).err) \subseteq Range(error)
           /\ Range(impl_ops(content).err) \subseteq Range(error)

-----------------------------------------------------------------------------
\* C23 as stated: a name outside the vocabulary, given directly in a
\* `dstruct` or `dfield` list, makes the resolution fail.
CexC23 ==
    (/\ pc # "parsed"
     /\ \/ \E m \in Range(StructMetas(syntax.attrs)) :
               m.key \notin {"default", "const", "std_default", "debug", "partial",
                             "set", "get", "cmp", "ops"}
        \/ \E i \in 1..Len(syntax.fields) :
               \E m \in Range(FieldMetas(syntax.fields[i].attrs)) :
                   m.key \notin {"default", "seq", "sequence", "get", "set", "do_with",
                                 "map", "no_debug", "cmp", "ops"})
        => pc = "syntax_error"

\* C23, amended: a name outside the vocabulary, given directly in a
\* `dstruct` or `dfield` list, is silently ignored: the resolution ends as
\* it does for the same declaration without these entries, with the same
\* policy or with the same error.
InvC23 ==
    LET keep(attrs, known) ==
            [n \in 1..Len(attrs) |->
               Attr(attrs[n].path,
                    SelectSeq(attrs[n].nested,
                              LAMBDA m : m.shape = "lit" \/ m.key \in known))]
        stripped ==
            [attrs |-> keep(syntax.attrs,
                            {"default", "const", "std_default", "debug", "partial",
                             "set", "get", "cmp", "ops"}),
             fields |-> [i \in 1..Len(syntax.fields) |->
                           StructField(syntax.fields[i].ident,
                                       keep(syntax.fields[i].attrs,
                                            {"default", "seq", "sequence", "get", "set",
                                             "do_with", "map", "no_debug", "cmp",
                                             "ops"}),
                                       syntax.fields[i].default_value)]]
    IN  (pc # "parsed" /\ stripped # syntax) =>
            \E r \in {RichStructContent_from_syntax(stripped)} :
                IF pc = "syntax_error"
                THEN ~r.ok /\ error = r.err
                ELSE r.ok /\ content = [config |-> r.config, fields |-> r.fields]

\* `#[dstruct(unknown, default)]` over a field with
\* `#[dfield(unknown, default = "1")]` resolves, with the full default
\* requested and the field's default 1.
WitC23 ==
    /\ pc = "done"
    /\ \E m \in Range(StructMetas(syntax.attrs)) : m.key = "unknown"
    /\ \E i \in 1..Len(syntax.fields) :
           \E m \in Range(FieldMetas(syntax.fields[i].attrs)) : m.key = "unknown"
    /\ content.config.generate_default
    /\ output.default.present

-----------------------------------------------------------------------------
\* C24: when the structure requests the manual Debug (its last `debug`
\* entry is the bare flag or `= true`), the generated Debug lists exactly
\* the fields whose `no_debug` is false, in resolved field order, so that
\* an instance prints as those `name: value` pairs and no field marked
\* `no_debug` appears; when it is not requested, no Debug is generated.
InvC24 ==
    pc = "done" =>
        LET d == SelectSeq(StructMetas(syntax.attrs), LAMBDA m : m.key = "debug")
            requested == d # <<>> /\ (d[Len(d)].shape = "path" \/ d[Len(d)].b)
            hidden(ident) ==
                LET nd == SelectSeq(FieldMetas(syntax.fields[DeclIndex(ident)].attrs),
                                    LAMBDA m : m.key = "no_debug")
                IN  nd # <<>> /\ (nd[Len(nd)].shape = "path" \/ nd[Len(nd)].b)
            visible == SelectSeq(Idents(content.fields), LAMBDA f : ~hidden(f))
        IN  IF requested
            THEN /\ output.debug_impl.present
                 /\ output.debug_impl.fields = visible
                 /\ \A x \in AllInstances :
                        [n \in 1..Len(output.debug_impl.fields) |->
                           <<output.debug_impl.fields[n], x[output.debug_impl.fields[n]]>>]
                            = [n \in 1..Len(visible) |-> <<visible[n], x[visible[n]]>>]
            ELSE ~output.debug_impl.present

\* `#[dstruct(debug)]` over a field a and a field b marked `no_debug`:
\* Debug prints a only.
WitC24 ==
    /\ pc = "done"
    /\ syntax.attrs = <<Attr("dstruct", <<MPath("debug")>>)>>
    /\ Len(syntax.fields) = 2
    /\ syntax.fields[1].attrs = <<>>
    /\ syntax.fields[2].attrs = <<Attr("dfield", <<MPath("no_debug")>>)>>
    /\ output.debug_impl = [present |-> TRUE, fields |-> <<"a">>]

-----------------------------------------------------------------------------
\* C25: the independent partial-ordering chain compares the fields that
\* have a partial-ordering rank, in ascending rank order; on every pair of
\* instances, NaN field values included, its result is absent exactly when
\* the comparison of at least one participating field is absent (also when
\* an earlier-ranked field already compares non-equal), and otherwise it is
\* the first non-equal field result, or Equal when all are equal.
InvC25 ==
    (pc = "done" /\ output.cmp_impl.partial_ord.kind = "chain") =>
        LET seq == output.cmp_impl.partial_ord.cmp_seq
            rank(ident) ==
                (CHOOSE f \in Range(content.fields) : f.ident = ident).config.cmp.partial_ord.v
            part(x, y, n) == PartialCmp(x[seq[n]], y[seq[n]])
            expected(x, y) ==
                LET unequal == {n \in 1..Len(seq) : part(x, y, n).v # "Equal"}
                IN  IF \E n \in 1..Len(seq) : ~part(x, y, n).some
                    THEN NoneOrdering
                    ELSE IF unequal = {}
                    THEN SomeOrdering("Equal")
                    ELSE part(x, y, CHOOSE n \in unequal : \A k \in unequal : n <= k)
        IN  /\ output.cmp_impl.partial_ord.present
            /\ Len(seq) = Cardinality(Ranked("partial_ord"))
            /\ Range(seq) = {content.fields[n].ident : n \in Ranked("partial_ord")}
            /\ \A i, j \in 1..Len(seq) : i < j => rank(seq[i]) <= rank(seq[j])
            /\ \A x, y \in [Range(seq) -> {NaN, 0, 1}] :
                   EvalPartialChain(seq, x, y) = expected(x, y)

\* A chain over two fields of which the later one in the structure has the
\* smaller rank; on a pair whose first compared field is Less and whose
\* second compared field holds NaN the result is absent.
WitC25 ==
    /\ pc = "done"
    /\ output.cmp_impl.partial_ord.kind = "chain"
    /\ Len(content.fields) = 2
    /\ output.cmp_impl.partial_ord.cmp_seq
           = <<content.fields[2].ident, content.fields[1].ident>>
    /\ \E x, y \in [Range(Idents(content.fields)) -> {NaN, 0, 1}] :
           /\ PartialCmp(x[content.fields[2].ident], y[content.fields[2].ident])
                  = SomeOrdering("Less")
           /\ x[content.fields[1].ident] = NaN
           /\ ~EvalPartialChain(output.cmp_impl.partial_ord.cmp_seq, x, y).some

-----------------------------------------------------------------------------
\* C26: the plain and the in-place policy of a field for one family are
\* independent: each is given by the last entry of its own key in the
\* field's `ops(..)` group and is unset without such an entry, whatever the
\* group says about the other key.  So under a structure-level "both" a
\* field with an `add_assign` entry and no `add` entry is still added by
\* the plain operator, and a field with an `add` entry and no `add_assign`
\* entry is still added by the in-place operator.
InvC26 ==
    /\ Resolved =>
           \A i \in 1..Len(syntax.fields), n \in 1..Len(content.fields) :
               LET groups == SelectSeq(FieldMetas(syntax.fields[i].attrs),
                                       LAMBDA m : m.key = "ops" /\ m.shape = "list")
                   last == IF groups = <<>> THEN <<>> ELSE groups[Len(groups)].sub
                   own(k) == SelectSeq(last, LAMBDA m : m.key = k)
                   policy(k) ==
                       IF own(k) = <<>> THEN OpsNone
                       ELSE IF own(k)[Len(own(k))].shape = "path"
                       THEN OpsOperationType_default
                       ELSE OpsOperationType_from_lit(own(k)[Len(own(k))]).v
               IN  content.fields[n].ident = syntax.fields[i].ident =>
                       IF groups = <<>>
                       THEN content.fields[n].config.ops = FieldOpsConfig_default
                       ELSE \A k \in OpsFieldKeys :
                                content.fields[n].config.ops[k] = policy(k)
    /\ pc = "done" =>
           \A g \in Range(OpsFamilies), n \in 1..Len(content.fields) :
               LET f == content.fields[n].ident
                   groups == SelectSeq(FieldMetas(syntax.fields[DeclIndex(f)].attrs),
                                       LAMBDA m : m.key = "ops" /\ m.shape = "list")
                   last == IF groups = <<>> THEN <<>> ELSE groups[Len(groups)].sub
                   has(k) == \E j \in 1..Len(last) : last[j].key = k
               IN  /\ (/\ has(g \o "_assign") /\ ~has(g)
                       /\ output.ops_impl[g].present) =>
                          \A x, y \in AllInstances :
                              EvalOps(output.ops_impl[g].fields, x, y).value[f]
                                  = BinOp(OpsSymbol(g), x[f], y[f])
                   /\ (/\ has(g) /\ ~has(g \o "_assign")
                       /\ output.ops_impl[g \o "_assign"].present) =>
                          \A x, y \in AllInstances :
                              \E v \in {BinOp(OpsSymbol(g), x[f], y[f])},
                                 st \in {EvalOpsAssign(<<output.ops_impl[g \o "_assign"].fields[n]>>,
                                                       x, y)} :
                                  /\ st.ok = v.some
                                  /\ v.some => st.env = [x EXCEPT ![f] = v.v]

\* `#[dstruct(ops(add = "both"))]` over a field a with only
\* `add_assign = "ignore"` and a field b with `add = "ignore"` and no
\* add_assign entry: `+` adds a and keeps b, `+=` keeps a and adds b.
WitC26 ==
    /\ pc = "done"
    /\ content.config.ops["add"] = "Both"
    /\ Len(syntax.fields) = 2
    /\ Idents(content.fields) = <<"a", "b">>
    /\ syntax.fields[1].attrs
           = <<Attr("dfield", <<MList("ops", <<MStr("add_assign", "ignore")>>)>>)>>
    /\ OpsPolicy(1, "add") = None /\ OpsPolicy(1, "add_assign") = "Ignore"
    /\ OpsPolicy(2, "add") = "Ignore" /\ OpsPolicy(2, "add_assign") = None
    /\ output.ops_impl["add"].present /\ output.ops_impl["add_assign"].present
    /\ \E x, y \in AllInstances :
           /\ y["a"] # 0 /\ y["b"] # 0
           /\ EvalOps(output.ops_impl["add"].fields, x, y).value
                  = [f \in DOMAIN x |-> IF f = "a" THEN Some(x[f] + y[f]) ELSE Some(x[f])]
           /\ EvalOpsAssign(output.ops_impl["add_assign"].fields, x, y)
                  = [ok |-> TRUE, env |-> [x EXCEPT !["b"] = @ + y["b"]]]

-----------------------------------------------------------------------------
\* C27: on every option list that the declaration hands to the collector in
\* map mode (the structure's `ops(..)` lists and the fields' `cmp(..)`
\* lists), when no classifier call fails the result is the mapping that
\* gives every produced key the value of the last entry that produced it;
\* when k >= 1 calls fail the result is no mapping but the error made of
\* exactly those k failures in entry order, the entries after a failure
\* being visited too, and that error is what the resolution reports.  The
\* collector in set mode (the structure's `cmp(..)` lists) aggregates its
\* failures in the same way.
InvC27 ==
    LET map_ok(nested, func, env0) ==
            LET visited == {j \in 1..Len(nested) :
                              nested[j].shape \in {"path", "bool", "int", "str", "float"}}
                cls(j) == call_map_func(func, j - 1, nested[j], env0)
                failed == SelectSeq([j \in 1..Len(nested) |-> j],
                                    LAMBDA j : j \in visited /\ ~cls(j).ok)
                last(key) == CHOOSE j \in visited :
                                 /\ cls(j).k = key
                                 /\ \A l \in visited : cls(l).k = key => l <= j
            IN  \E r \in {collect_meta_map(nested, func, env0)} :
                    IF failed = <<>>
                    THEN /\ r.ok
                         /\ DOMAIN r.map = {cls(j).k : j \in visited}
                         /\ \A key \in DOMAIN r.map : r.map[key] = cls(last(key)).v
                    ELSE /\ ~r.ok
                         /\ r.err = Concat([n \in 1..Len(failed) |-> cls(failed[n]).err])
                         /\ Len(r.err) = Len(failed)
        set_ok(nested, env0) ==
            LET bad == "invalid meta argument, expect ident or string literal"
                cls(j) == IF nested[j].shape \in {"path", "lit"}
                          THEN call_set_func("StructConfig::cmp",
                                             IF nested[j].shape = "path" THEN nested[j].key
                                             ELSE nested[j].s, env0)
                          ELSE [ok |-> FALSE, err |-> <<bad>>]
                failed == SelectSeq([j \in 1..Len(nested) |-> j], LAMBDA j : ~cls(j).ok)
            IN  \E r \in {collect_meta_set(nested, "StructConfig::cmp", env0)} :
                    /\ r.ok = (failed = <<>>)
                    /\ r.err = Concat([n \in 1..Len(failed) |-> cls(failed[n]).err])
        metas == StructMetas(syntax.attrs)
    IN  /\ \A n \in 1..Len(metas) :
               /\ (metas[n].key = "ops" /\ metas[n].shape = "list") =>
                      map_ok(metas[n].sub, "StructOpsConfig::from_meta", "unit")
               /\ (metas[n].key = "cmp" /\ metas[n].shape = "list") =>
                      set_ok(metas[n].sub, StructCmpConfig_default)
        /\ \A i \in 1..Len(syntax.fields) :
               \A n \in 1..Len(FieldMetas(syntax.fields[i].attrs)) :
                   LET m == FieldMetas(syntax.fields[i].attrs)[n]
                   IN  (m.key = "cmp" /\ m.shape = "list") =>
                           map_ok(m.sub, "FieldCmpConfig::from_meta", FieldCmpConfig_default)
        /\ (/\ pc # "parsed"
            /\ Len(metas) = 1
            /\ metas[1].shape = "list"
            /\ metas[1].key \in {"ops", "cmp"}) =>
               \E r \in {IF metas[1].key = "ops"
                         THEN collect_meta_map(metas[1].sub, "StructOpsConfig::from_meta", "unit")
                         ELSE collect_meta_set(metas[1].sub, "StructConfig::cmp",
                                               StructCmpConfig_default)} :
                   ~r.ok => pc = "syntax_error" /\ error = r.err

\* `#[dstruct(ops(add = "inplace", mul, sub = "bogus", mul = "both"))]`: the
\* first and the third entry fail, and the resolution reports both.
WitC27 ==
    /\ pc = "syntax_error"
    /\ StructMetas(syntax.attrs)
           = <<MList("ops", <<MStr("add", "inplace"), MPath("mul"), MStr("sub", "bogus"),
                              MStr("mul", "both")>>)>>
    /\ error = <<"invalid ops operation type", "invalid ops operation type">>

\* `#[dstruct(ops(add, add = false))]`: the later entry for add wins.
WitC27Last ==
    /\ pc = "done"
    /\ StructMetas(syntax.attrs) = <<MList("ops", <<MPath("add"), MBool("add", FALSE)>>)>>
    /\ content.config.ops["add"] = None

-----------------------------------------------------------------------------
\* C28: a structure whose last `partial` option is `partial = <bool>`
\* resolves with the partial-default flag equal to that boolean, and the
\* option does not touch the const-default flag: without a `const` option
\* the flag stays false.
CexC28 ==
    pc \in {"content", "done", "impl_error"} =>
        LET p == SelectSeq(StructMetas(syntax.attrs), LAMBDA m : m.key = "partial")
            c == SelectSeq(StructMetas(syntax.attrs), LAMBDA m : m.key = "const")
        IN  (p # <<>> /\ p[Len(p)].shape = "bool") =>
                /\ content.config.partial_default = p[Len(p)].b
                /\ c = <<>> => ~content.config.const_default

-----------------------------------------------------------------------------
\* C29: with several `cmp(..)` (or `ops(..)`) groups on a field, every
\* sub-option has the value given by the last group that mentions it, and
\* its default when no group mentions it.
CexC29 ==
    Resolved =>
        LET
            cmp_groups(i) == SelectSeq(FieldMetas(syntax.fields[i].attrs),
                                       LAMBDA m : m.key = "cmp" /\ m.shape = "list")
            ops_groups(i) == SelectSeq(FieldMetas(syntax.fields[i].attrs),
                                       LAMBDA m : m.key = "ops" /\ m.shape = "list")
            class(k) == CASE k = "eq" -> {"eq", "peq"}
                          [] k = "ord" -> {"cmp", "ord"}
                          [] k = "partial_ord" -> {"partial_cmp", "pcmp", "partial_ord", "pord"}
                          [] OTHER -> {k}
            mentions(g, k) == \E j \in 1..Len(g.sub) : g.sub[j].key \in class(k)
            last_entry(g, k) == CHOOSE j \in 1..Len(g.sub) :
                                    /\ g.sub[j].key \in class(k)
                                    /\ \A l \in (j + 1)..Len(g.sub) : g.sub[l].key \notin class(k)
            cmp_value(g, k) ==
                FieldCmpClassify(last_entry(g, k) - 1, g.sub[last_entry(g, k)],
                                 FieldCmpConfig_default).env[k]
            ops_value(g, k) ==
                IF g.sub[last_entry(g, k)].shape = "path" THEN OpsOperationType_default
                ELSE OpsOperationType_from_lit(g.sub[last_entry(g, k)]).v
            pick(gs, k) == CHOOSE j \in 1..Len(gs) :
                               /\ mentions(gs[j], k)
                               /\ \A l \in (j + 1)..Len(gs) : ~mentions(gs[l], k)
            any(gs, k) == \E j \in 1..Len(gs) : mentions(gs[j], k)
        IN  \A i \in 1..Len(syntax.fields), n \in 1..Len(content.fields) :
                content.fields[n].ident = syntax.fields[i].ident =>
                    /\ \A k \in {"eq", "ord", "partial_ord"} :
                           content.fields[n].config.cmp[k]
                               = IF any(cmp_groups(i), k)
                                 THEN cmp_value(cmp_groups(i)[pick(cmp_groups(i), k)], k)
                                 ELSE FieldCmpConfig_default[k]
                    /\ \A k \in OpsFieldKeys :
                           content.fields[n].config.ops[k]
                               = IF any(ops_groups(i), k)
                                 THEN ops_value(ops_groups(i)[pick(ops_groups(i), k)], k)
                                 ELSE OpsNone

\* C29 (amended): with several `cmp(..)` (or `ops(..)`) groups on a field,
\* the positionally last group replaces the whole sub-configuration: every
\* sub-option has the value given by the last group when that group
\* mentions it and its default otherwise, whatever the earlier groups set.
InvC29 ==
    Resolved =>
        LET
            cmp_groups(i) == SelectSeq(FieldMetas(syntax.fields[i].attrs),
                                       LAMBDA m : m.key = "cmp" /\ m.shape = "list")
            ops_groups(i) == SelectSeq(FieldMetas(syntax.fields[i].attrs),
                                       LAMBDA m : m.key = "ops" /\ m.shape = "list")
            class(k) == CASE k = "eq" -> {"eq", "peq"}
                          [] k = "ord" -> {"cmp", "ord"}
                          [] k = "partial_ord" -> {"partial_cmp", "pcmp", "partial_ord", "pord"}
                          [] OTHER -> {k}
            mentions(g, k) == \E j \in 1..Len(g.sub) : g.sub[j].key \in class(k)
            last_entry(g, k) == CHOOSE j \in 1..Len(g.sub) :
                                    /\ g.sub[j].key \in class(k)
                                    /\ \A l \in (j + 1)..Len(g.sub) : g.sub[l].key \notin class(k)
            cmp_value(g, k) ==
                FieldCmpClassify(last_entry(g, k) - 1, g.sub[last_entry(g, k)],
                                 FieldCmpConfig_default).env[k]
            ops_value(g, k) ==
                IF g.sub[last_entry(g, k)].shape = "path" THEN OpsOperationType_default
                ELSE OpsOperationType_from_lit(g.sub[last_entry(g, k)]).v
            final(gs) == gs[Len(gs)]
        IN  \A i \in 1..Len(syntax.fields), n \in 1..Len(content.fields) :
                (/\ content.fields[n].ident = syntax.fields[i].ident
                 /\ \/ cmp_groups(i) # <<>> \/ ops_groups(i) # <<>>
                    \/ content.fields[n].config.cmp # FieldCmpConfig_default
                    \/ content.fields[n].config.ops # FieldOpsConfig_default) =>
                    /\ \A k \in {"eq", "ord", "partial_ord"} :
                           content.fields[n].config.cmp[k]
                               = IF cmp_groups(i) # <<>> /\ mentions(final(cmp_groups(i)), k)
                                 THEN cmp_value(final(cmp_groups(i)), k)
                                 ELSE FieldCmpConfig_default[k]
                    /\ \A k \in OpsFieldKeys :
                           content.fields[n].config.ops[k]
                               = IF ops_groups(i) # <<>> /\ mentions(final(ops_groups(i)), k)
                                 THEN ops_value(final(ops_groups(i)), k)
                                 ELSE OpsNone

\* `#[dfield(cmp(ord = 1))] #[dfield(cmp(eq = false))]` resolves to no
\* ordering rank and equality participation false.
WitC29 ==
    /\ Resolved
    /\ Len(syntax.fields) = 1
    /\ syntax.fields[1].attrs
           = <<Attr("dfield", <<MList("cmp", <<MInt("ord", 1)>>)>>),
               Attr("dfield", <<MList("cmp", <<MBool("eq", FALSE)>>)>>)>>
    /\ content.fields[1].config.cmp
           = [eq |-> FALSE, ord |-> NoneInt, partial_ord |-> NoneInt]

-----------------------------------------------------------------------------
\* C30: in the partial-default constructor the parameters are the declared
\* fields without default, ordered by effective sequence key and, for
\* equal keys, by declaration index (the resolved order, not the
\* declaration order); the let-bindings of the defaulted fields follow the
\* same order; and when a `seq` override puts a field without default in
\* front of an earlier declared one, the parameter list differs from the
\* declaration-order list.
InvC30 ==
    (pc = "done" /\ output.impl_.p_default.present) =>
        LET body == output.impl_.p_default.body
            has_default(i) ==
                \/ syntax.fields[i].default_value.some
                \/ \E j \in 1..Len(FieldMetas(syntax.fields[i].attrs)) :
                       FieldMetas(syntax.fields[i].attrs)[j].key = "default"
            declared(want) ==
                Idents(SelectSeq(syntax.fields,
                                 LAMBDA f : has_default(DeclIndex(f.ident)) = want))
            before(f, g) ==
                \/ EffectiveKey(f) < EffectiveKey(g)
                \/ EffectiveKey(f) = EffectiveKey(g) /\ DeclIndex(f) < DeclIndex(g)
            in_resolved_order(seq, want) ==
                /\ Len(seq) = Len(declared(want))
                /\ Range(seq) = Range(declared(want))
                /\ \A i, j \in 1..Len(seq) : i < j => before(seq[i], seq[j])
        IN  /\ in_resolved_order(body.params, FALSE)
            /\ in_resolved_order([n \in 1..Len(body.stmts) |-> body.stmts[n].name], TRUE)
            /\ (\E f, g \in Range(declared(FALSE)) :
                    DeclIndex(f) < DeclIndex(g) /\ before(g, f))
                   => body.params # declared(FALSE)

\* Fields a and b without default, b carrying `seq = -1`: the constructor
\* takes (b, a).
WitC30 ==
    /\ pc = "done"
    /\ output.impl_.p_default.present
    /\ Idents(syntax.fields) = <<"a", "b">>
    /\ syntax.fields[1].attrs = <<>>
    /\ syntax.fields[2].attrs = <<Attr("dfield", <<MInt("seq", -1)>>)>>
    /\ output.impl_.p_default.body.params = <<"b", "a">>

\* A field without default moved behind a defaulted one: the binding of
\* the defaulted field and the parameter are both present.
WitC30Bindings ==
    /\ pc = "done"
    /\ output.impl_.p_default.present
    /\ Idents(syntax.fields) = <<"a", "b">>
    /\ Idents(content.fields) = <<"b", "a">>
    /\ output.impl_.p_default.body.params = <<"a">>
    /\ output.impl_.p_default.body.stmts # <<>>
====
